---- MODULE Spec2Model ----
(***************************************************************************)
(* Model of prototype_script.py, the advising script that checks honours   *)
(* module choice forms against programme requirements, prerequisites,      *)
(* scheduling and the timetable.                                           *)
(*                                                                         *)
(* Python strings are TLA+ strings; str methods (split, replace,           *)
(* startswith, re.findall, eval of a boolean expression) are operators     *)
(* that compute character by character what the Python calls compute.      *)
(* Python lists and pandas columns are sequences, a pandas data frame is a *)
(* sequence of records (its rows, in order).                               *)
(***************************************************************************)
EXTENDS Integers, Sequences, FiniteSets, TLC

VARIABLES
    module_catalogue,     \* the global data frame read from Module_catalogue.xlsx
    form_files,           \* process_folder: the enumerated form files
    list_of_data_frames,  \* process_folder: the summary rows collected so far
    student,              \* process_form_file: student_or_warning
    locals,               \* process_form_file: the findings computed so far
    pc,                   \* position of the running call
    args,                 \* arguments of a directly called function
    ret                   \* value returned by a directly called function

vars == <<module_catalogue, form_files, list_of_data_frames, student, locals,
          pc, args, ret>>

(***************************************************************************)
(* Python built-ins on strings and lists.                                  *)
(***************************************************************************)

\* float('nan'): what pandas yields for an empty cell; it is not a str.
NaN == "<float nan>"

isinstance_str(x) == x # NaN

\* s[i-1] of Python, as a one-character string.
CharAt(s, i) == SubSeq(s, i, i)

\* s.startswith(prefix)
startswith(s, prefix) ==
    /\ Len(prefix) <= Len(s)
    /\ SubSeq(s, 1, Len(prefix)) = prefix

\* s.endswith(suffix)
endswith(s, suffix) ==
    /\ Len(suffix) <= Len(s)
    /\ SubSeq(s, Len(s) - Len(suffix) + 1, Len(s)) = suffix

\* the k-th smallest number of a set of numbers
nth_smallest(numbers, k) ==
    CHOOSE n \in numbers : Cardinality({m \in numbers : m < n}) = k - 1

\* the positions at which sub occurs in s
occurrences(s, sub) ==
    {i \in 1..(Len(s) - Len(sub) + 1) : SubSeq(s, i, i + Len(sub) - 1) = sub}

\* sub in s, for strings
str_contains(s, sub) == occurrences(s, sub) # {}

\* s.split(): the maximal runs of non-blank characters, in order
split(s) ==
    LET first_characters ==
            {i \in 1..Len(s) :
                CharAt(s, i) # " " /\ (i = 1 \/ CharAt(s, i - 1) = " ")}
        last_characters ==
            {i \in 1..Len(s) :
                CharAt(s, i) # " " /\ (i = Len(s) \/ CharAt(s, i + 1) = " ")}
    IN  [k \in 1..Cardinality(first_characters) |->
            SubSeq(s, nth_smallest(first_characters, k),
                      nth_smallest(last_characters, k))]

\* s.replace(old, new) for a non-empty old: every non-overlapping
\* occurrence, left to right
RECURSIVE replace(_, _, _)
replace(s, old, new) ==
    IF occurrences(s, old) = {} THEN s
    ELSE LET i == nth_smallest(occurrences(s, old), 1)
         IN  SubSeq(s, 1, i - 1) \o new
             \o replace(SubSeq(s, i + Len(old), Len(s)), old, new)

UpperCase == {"A", "B", "C", "D", "E", "F", "G", "H", "I", "J", "K", "L", "M",
              "N", "O", "P", "Q", "R", "S", "T", "U", "V", "W", "X", "Y", "Z"}

Digits == {"0", "1", "2", "3", "4", "5", "6", "7", "8", "9"}

\* whether r'[A-Z]{2}\d{4}' matches s at position i
matches_module_code_at(s, i) ==
    /\ i + 5 <= Len(s)
    /\ CharAt(s, i) \in UpperCase
    /\ CharAt(s, i + 1) \in UpperCase
    /\ \A k \in 2..5 : CharAt(s, i + k) \in Digits

\* re.findall(r'[A-Z]{2}\d{4}', s): two matches of this pattern never
\* overlap, so every position that matches is found
findall_module_codes(s) ==
    LET matches == {i \in 1..Len(s) : matches_module_code_at(s, i)}
    IN  [k \in 1..Cardinality(matches) |->
            SubSeq(s, nth_smallest(matches, k), nth_smallest(matches, k) + 5)]

\* x in a_list
in_list(x, a_list) == \E i \in 1..Len(a_list) : a_list[i] = x

\* set(a_list)
set_of(a_list) == {a_list[i] : i \in 1..Len(a_list)}

\* a_list.index(x): first position (0-based) of x
list_index(a_list, x) ==
    (CHOOSE i \in 1..Len(a_list) :
        a_list[i] = x /\ \A j \in 1..(i - 1) : a_list[j] # x) - 1

\* pandas Series.unique(): the distinct values in order of first appearance
unique(a_list) ==
    LET first_appearances ==
            {i \in 1..Len(a_list) : \A j \in 1..(i - 1) : a_list[j] # a_list[i]}
    IN  [k \in 1..Cardinality(first_appearances) |->
            a_list[nth_smallest(first_appearances, k)]]

\* str(n) for a natural number
RECURSIVE str(_)
str(n) ==
    LET digit == <<"0", "1", "2", "3", "4", "5", "6", "7", "8", "9">>[(n % 10) + 1]
    IN  IF n < 0 THEN "-" \o str(0 - n)
        ELSE IF n < 10 THEN digit ELSE str(n \div 10) \o digit

\* int(s) for a string of decimal digits
RECURSIVE int(_)
int(s) ==
    LET value(c) == CHOOSE d \in 0..9 : str(d) = c
    IN  IF Len(s) = 1 THEN value(s)
        ELSE 10 * int(SubSeq(s, 1, Len(s) - 1)) + value(CharAt(s, Len(s)))

(***************************************************************************)
(* merge_list_to_long_string                                               *)
(***************************************************************************)

\* first_item_found after the first n items of the for loop of
\* merge_list_to_long_string
first_item_found(a_list, n) == \E i \in 1..n : a_list[i] # "None"

\* a_string after the first n items of the for loop
RECURSIVE merge_loop(_, _)
merge_loop(a_list, n) ==
    IF n = 0 THEN ""
    ELSE IF a_list[n] # "None"
         THEN IF first_item_found(a_list, n - 1)
              THEN merge_loop(a_list, n - 1) \o ", " \o a_list[n]
              ELSE a_list[n]
         ELSE merge_loop(a_list, n - 1)

merge_list_to_long_string(a_list) ==
    LET a_string == merge_loop(a_list, Len(a_list))
    IN  IF a_string = "" THEN "None" ELSE a_string

(***************************************************************************)
(* Direct calls of merge_list_to_long_string on bounded lists of strings.  *)
(***************************************************************************)

MaxMergeLen == 3

\* entries of the merged lists: the empty string, the literal 'None' and
\* ordinary messages
MergeItems == {"", "None", "A", "B"}

MergeLists == UNION {[1..n -> MergeItems] : n \in 0..MaxMergeLen}

NoStudent == [kind |-> "none"]

NoLocals == [kind |-> "none"]

NoValue == "<no value>"

MergeInit ==
    /\ module_catalogue = <<>>
    /\ form_files = <<>>
    /\ list_of_data_frames = <<>>
    /\ student = NoStudent
    /\ locals = NoLocals
    /\ pc = "merge_call"
    /\ args \in MergeLists
    /\ ret = NoValue

MergeCall ==
    /\ pc = "merge_call"
    /\ ret' = merge_list_to_long_string(args)
    /\ pc' = "merge_done"
    /\ UNCHANGED <<module_catalogue, form_files, list_of_data_frames, student,
                   locals, args>>

MergeNext == MergeCall

SpecMerge == MergeInit /\ [][MergeNext]_vars

\* the entries of a_list different from 'None', in their original order
RECURSIVE EntriesNotNone(_)
EntriesNotNone(a_list) ==
    IF a_list = <<>> THEN <<>>
    ELSE (IF Head(a_list) # "None" THEN <<Head(a_list)>> ELSE <<>>)
         \o EntriesNotNone(Tail(a_list))

\* ', '.join(a_list) for a non-empty list
RECURSIVE JoinedByComma(_)
JoinedByComma(a_list) ==
    IF Len(a_list) = 1 THEN a_list[1]
    ELSE a_list[1] \o ", " \o JoinedByComma(Tail(a_list))

\* C2: merge_list_to_long_string returns 'None' for a list that is empty or
\* holds only 'None' entries, and otherwise the entries different from
\* 'None', in order, joined by ', '.
C2_MergeIsJoinOfEntriesNotNone ==
    pc = "merge_done" =>
        ret = IF EntriesNotNone(args) = <<>> THEN "None"
              ELSE JoinedByComma(EntriesNotNone(args))

\* what the code does instead: an empty joined string also becomes 'None'
C2_MergeCollapsesEmptyString ==
    pc = "merge_done" =>
        ret = IF EntriesNotNone(args) = <<>> THEN "None"
              ELSE IF JoinedByComma(EntriesNotNone(args)) = "" THEN "None"
              ELSE JoinedByComma(EntriesNotNone(args))

(***************************************************************************)
(* eval() of a prerequisite string whose module codes have been replaced   *)
(* by 'True' and 'False': Python's boolean expressions over names, not,    *)
(* and, or and parentheses.  Anything else in the string is reported as a  *)
(* raised exception.                                                       *)
(***************************************************************************)

NameChars == UpperCase \cup Digits \cup
             {"a", "b", "c", "d", "e", "f", "g", "h", "i", "j", "k", "l", "m",
              "n", "o", "p", "q", "r", "s", "t", "u", "v", "w", "x", "y", "z",
              "_"}

\* the tokens of a Python expression: names, parentheses, "?" for any
\* other character
tokenize(s) ==
    LET is_name(i) == CharAt(s, i) \in NameChars
        first_characters ==
            {i \in 1..Len(s) :
                \/ is_name(i) /\ (i = 1 \/ ~is_name(i - 1))
                \/ ~is_name(i) /\ CharAt(s, i) # " "}
        last_character(i) ==
            CHOOSE j \in i..Len(s) :
                /\ \A k \in i..j : is_name(k)
                /\ j = Len(s) \/ ~is_name(j + 1)
        token(i) ==
            IF is_name(i) THEN SubSeq(s, i, last_character(i))
            ELSE IF CharAt(s, i) \in {"(", ")"} THEN CharAt(s, i)
            ELSE "?"
    IN  [k \in 1..Cardinality(first_characters) |->
            token(nth_smallest(first_characters, k))]

SyntaxError == [ok |-> FALSE, val |-> "SyntaxError", pos |-> 0]

\* a and b, with Python's short circuit; "NameError" is an operand whose
\* evaluation raises
py_and(a, b) == IF a = "NameError" THEN "NameError"
                ELSE IF a = "False" THEN "False" ELSE b

py_or(a, b) == IF a = "NameError" THEN "NameError"
               ELSE IF a = "True" THEN "True" ELSE b

py_not(a) == IF a = "NameError" THEN "NameError"
             ELSE IF a = "True" THEN "False" ELSE "True"

RECURSIVE parse_or(_, _), parse_or_rest(_, _), parse_and(_, _),
          parse_and_rest(_, _), parse_not(_, _), parse_atom(_, _)

\* atom: True | False | name | ( or_test )
parse_atom(toks, i) ==
    IF i > Len(toks) THEN SyntaxError
    ELSE IF toks[i] = "("
         THEN LET inner == parse_or(toks, i + 1)
              IN  IF inner.ok /\ inner.pos <= Len(toks) /\ toks[inner.pos] = ")"
                  THEN [ok |-> TRUE, val |-> inner.val, pos |-> inner.pos + 1]
                  ELSE SyntaxError
    ELSE IF toks[i] \in {")", "?", "and", "or", "not"} THEN SyntaxError
    ELSE IF CharAt(toks[i], 1) \in Digits THEN SyntaxError
    ELSE IF toks[i] \in {"True", "False"}
         THEN [ok |-> TRUE, val |-> toks[i], pos |-> i + 1]
    ELSE [ok |-> TRUE, val |-> "NameError", pos |-> i + 1]

\* not_test: 'not' not_test | atom
parse_not(toks, i) ==
    IF i <= Len(toks) /\ toks[i] = "not"
    THEN LET operand == parse_not(toks, i + 1)
         IN  IF operand.ok
             THEN [ok |-> TRUE, val |-> py_not(operand.val), pos |-> operand.pos]
             ELSE SyntaxError
    ELSE parse_atom(toks, i)

\* and_test: not_test ('and' not_test)*
parse_and_rest(toks, left) ==
    IF left.ok /\ left.pos <= Len(toks) /\ toks[left.pos] = "and"
    THEN LET right == parse_not(toks, left.pos + 1)
         IN  IF right.ok
             THEN parse_and_rest(toks, [ok |-> TRUE,
                                        val |-> py_and(left.val, right.val),
                                        pos |-> right.pos])
             ELSE SyntaxError
    ELSE left

parse_and(toks, i) == parse_and_rest(toks, parse_not(toks, i))

\* or_test: and_test ('or' and_test)*
parse_or_rest(toks, left) ==
    IF left.ok /\ left.pos <= Len(toks) /\ toks[left.pos] = "or"
    THEN LET right == parse_and(toks, left.pos + 1)
         IN  IF right.ok
             THEN parse_or_rest(toks, [ok |-> TRUE,
                                       val |-> py_or(left.val, right.val),
                                       pos |-> right.pos])
             ELSE SyntaxError
    ELSE left

parse_or(toks, i) == parse_or_rest(toks, parse_and(toks, i))

\* eval(expression): the value, or raised when Python raises
eval(expression) ==
    LET toks   == tokenize(expression)
        parsed == parse_or(toks, 1)
    IN  IF parsed.ok /\ parsed.pos = Len(toks) + 1 /\ parsed.val # "NameError"
        THEN [raised |-> FALSE, value |-> (parsed.val = "True")]
        ELSE [raised |-> TRUE, value |-> FALSE]

(***************************************************************************)
(* The module catalogue and the Student class.                             *)
(*                                                                         *)
(* A catalogue row is a record with the columns Module_code, Semester,     *)
(* Year, Alternate_years, Prerequisites, Antirequisites and Timetable.     *)
(* A row of honours_module_choices is a record with the columns            *)
(* Honours_year, Academic_year, Semester and Module_code.                  *)
(***************************************************************************)

\* module_catalogue[module_catalogue['Module code'] == module]
catalogue_rows(catalogue, module) ==
    SelectSeq(catalogue, LAMBDA row : row.Module_code = module)

\* data_frame[column].to_list() for the column 'Module code'
module_codes_of(data_frame) ==
    [i \in 1..Len(data_frame) |-> data_frame[i].Module_code]

\* data_frame['Honours year'] as a list
honours_years_of(data_frame) ==
    [i \in 1..Len(data_frame) |-> data_frame[i].Honours_year]

\* Student.__init__: all_honours_modules is an alias of the list passed as
\* passed_honours_modules, so the += on it extends both
Student(student_id, full_name, email, programme_name, year_of_study, expected_honours_years, current_honours_year, passed_modules, passed_honours_modules, honours_module_choices) ==
    LET all_honours_modules ==
            passed_honours_modules \o module_codes_of(honours_module_choices)
    IN  [kind                    |-> "Student",
         student_id              |-> student_id,
         full_name               |-> full_name,
         email                   |-> email,
         programme_name          |-> programme_name,
         year_of_study           |-> year_of_study,
         expected_honours_years  |-> expected_honours_years,
         current_honours_year    |-> current_honours_year,
         passed_modules          |-> passed_modules,
         passed_honours_modules  |-> all_honours_modules,
         honours_module_choices  |-> honours_module_choices,
         full_module_list        |-> passed_modules \o module_codes_of(honours_module_choices),
         all_honours_modules     |-> all_honours_modules,
         planned_honours_modules |-> module_codes_of(honours_module_choices)]

\* Student.get_number_of_modules_in_list
get_number_of_modules_in_list(self, module_list) ==
    Cardinality(set_of(self.full_module_list) \cap set_of(module_list))

(***************************************************************************)
(* get_missing_prerequisites_for_module                                    *)
(***************************************************************************)

\* the rows of honours_module_choices that select the module
rows_of_module(a_student, module) ==
    SelectSeq(a_student.honours_module_choices,
              LAMBDA row : row.Module_code = module)

\* int(honours_year[-1])
year_number_of(honours_year) == int(CharAt(honours_year, Len(honours_year)))

\* taken_modules_loop, had the modules of the whole honours year of the
\* module counted as taken before it
taken_modules_loop_with_own_year(rows, module, year_of_this_module, semester_of_this_module, previously_taken_modules) ==
    LET not_later(row) ==
            year_number_of(row.Honours_year) <= year_number_of(year_of_this_module)
        simultaneous(row) ==
            /\ row.Honours_year = year_of_this_module
            /\ row.Semester = semester_of_this_module
            /\ row.Module_code # module
        same_year(row) ==
            /\ row.Honours_year = year_of_this_module
            /\ row.Module_code # module
    IN  [previously_taken_modules |->
             previously_taken_modules
             \o module_codes_of(SelectSeq(rows, not_later)),
         simultaneously_taken_modules |->
             module_codes_of(SelectSeq(rows, simultaneous)),
         modules_taken_in_same_year |->
             module_codes_of(SelectSeq(rows, same_year))]

\* the loop over honours_module_choices that collects the modules taken
\* before the module, with it, and in the same year: each list gets the
\* codes of the rows that pass its test, in the order of the rows
taken_modules_loop(rows, module, year_of_this_module, semester_of_this_module, previously_taken_modules) ==
    LET earlier(row) ==
            year_number_of(row.Honours_year) < year_number_of(year_of_this_module)
        first_semester(row) ==
            /\ semester_of_this_module = "S2"
            /\ row.Honours_year = year_of_this_module
            /\ row.Semester = "S1"
        simultaneous(row) ==
            /\ row.Honours_year = year_of_this_module
            /\ row.Semester = semester_of_this_module
            /\ row.Module_code # module
        same_year(row) ==
            /\ row.Honours_year = year_of_this_module
            /\ row.Module_code # module
    IN  [previously_taken_modules |->
             previously_taken_modules
             \o module_codes_of(SelectSeq(rows,
                    LAMBDA row : earlier(row) \/ first_semester(row))),
         simultaneously_taken_modules |->
             module_codes_of(SelectSeq(rows, simultaneous)),
         modules_taken_in_same_year |->
             module_codes_of(SelectSeq(rows, same_year))]

\* taken_modules, had previously_taken_modules started from an empty list
\* instead of a copy of the passed modules
taken_modules_without_passed(module, a_student) ==
    LET selected == rows_of_module(a_student, module)
    IN  taken_modules_loop(a_student.honours_module_choices, module,
            selected[1].Honours_year, selected[1].Semester, <<>>)

\* previously_taken_modules, simultaneously_taken_modules and
\* modules_taken_in_same_year of a planned module
taken_modules(module, a_student) ==
    LET selected == rows_of_module(a_student, module)
    IN  taken_modules_loop(a_student.honours_module_choices, module,
            selected[1].Honours_year, selected[1].Semester,
            a_student.passed_modules)

\* 'True' or 'False', as str(x in a_list) would give
truth_of(module_code, a_list) ==
    IF in_list(module_code, a_list) THEN "True" ELSE "False"

\* one pass of the loop that substitutes a module code of the prerequisite
\* string by 'True' or 'False'
substitute_module_code(parsed_prerequisites, module_code, prerequisite_list, previously_taken_modules, simultaneously_taken_modules) ==
    LET by_previous(parsed) ==
            replace(parsed, module_code, truth_of(module_code, previously_taken_modules))
    IN  IF in_list(module_code, prerequisite_list)
        THEN LET location_index == list_index(prerequisite_list, module_code)
                 first ==
                     IF location_index > 0
                     THEN IF prerequisite_list[location_index] = "co-requisite"
                          THEN replace(
                                   replace(parsed_prerequisites, module_code,
                                       truth_of(module_code,
                                           previously_taken_modules
                                               \o simultaneously_taken_modules)),
                                   "co-requisite ", "")
                          ELSE by_previous(parsed_prerequisites)
                     ELSE parsed_prerequisites
             IN  by_previous(first)
        ELSE by_previous(parsed_prerequisites)

RECURSIVE substitute_all(_, _, _, _, _)
substitute_all(parsed_prerequisites, module_codes, prerequisite_list, previously_taken_modules, simultaneously_taken_modules) ==
    IF module_codes = <<>> THEN parsed_prerequisites
    ELSE substitute_all(
             substitute_module_code(parsed_prerequisites, Head(module_codes),
                 prerequisite_list, previously_taken_modules,
                 simultaneously_taken_modules),
             Tail(module_codes), prerequisite_list,
             previously_taken_modules, simultaneously_taken_modules)

list_of_MT5867_modules ==
    <<"MT3505", "MT4003", "MT4004", "MT4512", "MT4514", "MT4515", "MT4526">>

\* the findings of the prerequisite string: [raised, missed, advice]
prerequisite_findings(module, prerequisites, taken) ==
    LET prerequisite_list == split(prerequisites)
        previous == taken.previously_taken_modules
        none == [raised |-> FALSE, missed |-> <<>>, advice |-> <<>>]
    IN  IF ~(isinstance_str(prerequisites) /\ module # "MT5867") THEN none
        ELSE IF Len(prerequisite_list) = 1
        THEN IF ~in_list(prerequisite_list[1], previous)
             THEN [none EXCEPT !.missed =
                      <<"Student is missing prerequisite " \o prerequisite_list[1]
                        \o " for module " \o module>>]
             ELSE none
        ELSE IF Len(prerequisite_list) = 3
        THEN IF prerequisites = "Letter of agreement"
             THEN [none EXCEPT !.advice =
                      <<"Module " \o module \o " requires a letter of agreement">>]
             ELSE none
        ELSE IF prerequisites = "Students must have gained admission onto an MSc programme"
        THEN [none EXCEPT !.missed =
                 <<"Student cannot take module " \o module
                   \o " as this module is only available to Msc students">>]
        ELSE LET parsed_prerequisites ==
                     substitute_all(prerequisites, findall_module_codes(prerequisites),
                         prerequisite_list, previous,
                         taken.simultaneously_taken_modules)
                 prerequisites_are_met == eval(parsed_prerequisites)
             IN  IF prerequisites_are_met.raised THEN [none EXCEPT !.raised = TRUE]
                 ELSE IF ~prerequisites_are_met.value
                 THEN [none EXCEPT !.missed =
                          <<"Student is missing prerequisite [" \o prerequisites
                            \o "] for module " \o module \o " (["
                            \o parsed_prerequisites \o "])">>]
                 ELSE none

\* the finding of the special case MT5867
MT5867_findings(module, taken) ==
    IF module = "MT5867"
       /\ Cardinality(set_of(list_of_MT5867_modules)
                      \cap set_of(taken.previously_taken_modules)) < 2
    THEN <<"Student is missing prerequisite [two of (MT3505, MT4003, MT4004, MT4512, MT4514, MT4515, MT4526)] for module MT5867">>
    ELSE <<>>

\* antirequisite_findings, had only the previously taken modules been
\* searched for the antirequisites
antirequisite_findings_previous_only(module, antirequisites, taken) ==
    IF ~isinstance_str(antirequisites) THEN <<>>
    ELSE LET anti_module_codes == findall_module_codes(antirequisites)
             selected == SelectSeq(anti_module_codes, LAMBDA module_code :
                             in_list(module_code, taken.previously_taken_modules))
         IN  [i \in 1..Len(selected) |->
                 "Student selected antirequisite " \o selected[i]
                 \o " for module " \o module]

\* the loop over the module codes of the antirequisite string
antirequisite_findings(module, antirequisites, taken) ==
    IF ~isinstance_str(antirequisites) THEN <<>>
    ELSE LET anti_module_codes == findall_module_codes(antirequisites)
             selected == SelectSeq(anti_module_codes, LAMBDA module_code :
                             \/ in_list(module_code, taken.previously_taken_modules)
                             \/ in_list(module_code, taken.simultaneously_taken_modules))
         IN  [i \in 1..Len(selected) |->
                 "Student selected antirequisite " \o selected[i]
                 \o " for module " \o module]

\* the catalogue entry of a column for the module, nan for an unknown module
catalogue_entry(catalogue, module, column) ==
    IF Len(catalogue_rows(catalogue, module)) > 0
    THEN catalogue_rows(catalogue, module)[1][column]
    ELSE NaN

get_missing_prerequisites_for_module(module, a_student, catalogue) ==
    LET taken == taken_modules(module, a_student)
        prerequisites == catalogue_entry(catalogue, module, "Prerequisites")
        antirequisites == catalogue_entry(catalogue, module, "Antirequisites")
        from_prerequisites == prerequisite_findings(module, prerequisites, taken)
        missed_prerequisites_list ==
            from_prerequisites.missed
                \o MT5867_findings(module, taken)
                \o antirequisite_findings(module, antirequisites, taken)
        adviser_recommendations_list == from_prerequisites.advice
    IN  [raised |-> from_prerequisites.raised,
         missed_prerequisites_list |-> missed_prerequisites_list,
         missed_prerequisites |-> merge_list_to_long_string(missed_prerequisites_list),
         adviser_recommendations |-> merge_list_to_long_string(adviser_recommendations_list)]

(***************************************************************************)
(* Direct calls of get_missing_prerequisites_for_module on small students. *)
(***************************************************************************)

\* 'Year N' and the academic year 20(22+N)/20(23+N) of a planned row, as
\* parse_excel_form builds them
honours_module_row(honours_year_number, semester_number, module) ==
    [Honours_year  |-> "Year " \o str(honours_year_number),
     Academic_year |-> "20" \o str(22 + honours_year_number)
                       \o "/20" \o str(22 + honours_year_number + 1),
     Semester      |-> "S" \o str(semester_number),
     Module_code   |-> module]

MathematicsBSc == "Bachelor of Science (Honours) Mathematics"

MaxPlanned == 3

\* the module whose prerequisites are evaluated and the codes they name
PrereqModule == "MT3502"

PrereqCodes == {"MT1001", "MT1002"}

\* prerequisite entries of the catalogue row of PrereqModule
PrereqStrings ==
    {NaN, "MT1001", "MT1002", "MT1001 and MT1002", "MT1001 or MT1002",
     "Letter of agreement", "MT1001 and MT1002 and MT3502"}

PrereqCatalogue(prerequisites) ==
    <<[Module_code |-> "MT1001", Semester |-> "S1", Year |-> "2023/2024",
       Alternate_years |-> "No", Prerequisites |-> NaN,
       Antirequisites |-> NaN, Timetable |-> "9am Mon"],
      [Module_code |-> "MT1002", Semester |-> "S2", Year |-> "2023/2024",
       Alternate_years |-> "No", Prerequisites |-> NaN,
       Antirequisites |-> NaN, Timetable |-> "10am Mon"],
      [Module_code |-> PrereqModule, Semester |-> "S2", Year |-> "2023/2024",
       Alternate_years |-> "No", Prerequisites |-> prerequisites,
       Antirequisites |-> NaN, Timetable |-> "11am Mon"]>>

\* (honours year, semester) slots of a form, in the order parse_excel_form
\* reads them
FormSlots == <<<<1, 1>>, <<1, 2>>, <<2, 1>>, <<2, 2>>>>

\* planned rows in form order: the slot index of each row and its module
PlannedRowLists(codes, first_year) ==
    {rows \in UNION {[1..n -> (1..Len(FormSlots)) \X codes] : n \in 1..MaxPlanned} :
        /\ \A i \in 1..Len(rows) : FormSlots[rows[i][1]][1] >= first_year
        /\ \A i \in 1..(Len(rows) - 1) : rows[i][1] <= rows[i + 1][1]}

honours_module_table(rows) ==
    [i \in 1..Len(rows) |->
        honours_module_row(FormSlots[rows[i][1]][1], FormSlots[rows[i][1]][2],
                           rows[i][2])]

PassedLists == {<<>>, <<"MT1001">>, <<"MT1002">>, <<"MT1001", "MT1002">>}

PrereqInit ==
    /\ \E prerequisites \in PrereqStrings :
           module_catalogue = PrereqCatalogue(prerequisites)
    /\ form_files = <<>>
    /\ list_of_data_frames = <<>>
    /\ \E passed \in PassedLists, first_year \in 1..2 :
       \E rows \in PlannedRowLists(PrereqCodes \cup {PrereqModule}, first_year) :
           student = Student(190000001, "A Student", "as1@example.org",
                             MathematicsBSc, first_year + 2, 2, first_year,
                             passed, <<>>, honours_module_table(rows))
    /\ locals = NoLocals
    /\ pc = "prerequisites_call"
    /\ args \in set_of(student.planned_honours_modules)
    /\ ret = NoValue

PrereqCall ==
    /\ pc = "prerequisites_call"
    /\ ret' = get_missing_prerequisites_for_module(args, student, module_catalogue)
    /\ pc' = "prerequisites_done"
    /\ UNCHANGED <<module_catalogue, form_files, list_of_data_frames, student,
                   locals, args>>

PrereqNext == PrereqCall

SpecPrereq == PrereqInit /\ [][PrereqNext]_vars

\* the honours year and semester for which a module is planned (its first
\* row when it is planned more than once)
PlannedYear(a_student, module) ==
    year_number_of(rows_of_module(a_student, module)[1].Honours_year)

PlannedSemester(a_student, module) ==
    rows_of_module(a_student, module)[1].Semester

\* previously-taken modules of a planned module: the passed modules, the
\* planned modules of earlier honours years and, for a module in S2, the
\* S1 modules of its own honours year
PreviouslyTaken(a_student, module) ==
    LET choices == a_student.honours_module_choices
    IN  set_of(a_student.passed_modules)
        \cup {choices[i].Module_code : i \in
                {j \in 1..Len(choices) :
                    \/ year_number_of(choices[j].Honours_year)
                           < PlannedYear(a_student, module)
                    \/ /\ PlannedSemester(a_student, module) = "S2"
                       /\ year_number_of(choices[j].Honours_year)
                              = PlannedYear(a_student, module)
                       /\ choices[j].Semester = "S1"}}

\* a missing-prerequisite finding is among the findings of the call
MissingPrerequisiteEmitted ==
    \E i \in 1..Len(ret.missed_prerequisites_list) :
        startswith(ret.missed_prerequisites_list[i], "Student is missing prerequisite")

CataloguePrerequisites == catalogue_entry(module_catalogue, args, "Prerequisites")

\* C3: for the prerequisite string 'MT1001 and MT1002' a missing-prerequisite
\* finding is emitted if and only if not both codes are previously taken.
C3_CompoundAndFindingIffNotBoth ==
    (pc = "prerequisites_done" /\ CataloguePrerequisites = "MT1001 and MT1002") =>
        (MissingPrerequisiteEmitted <=>
            ~({"MT1001", "MT1002"} \subseteq PreviouslyTaken(student, args)))

\* C4: for a prerequisite string that is a single module code C, the finding
\* 'Student is missing prerequisite C for module M' is emitted if and only
\* if C is not previously taken.
C4_SingleCodeFindingIffNotTaken ==
    (pc = "prerequisites_done" /\ CataloguePrerequisites \in PrereqCodes) =>
        (in_list("Student is missing prerequisite " \o CataloguePrerequisites
                     \o " for module " \o args,
                 ret.missed_prerequisites_list)
            <=> CataloguePrerequisites \notin PreviouslyTaken(student, args))

\* C4 witness: the prerequisite is met only by a Semester 1 choice of the
\* module's own honours year, and no finding is emitted
C4_Witness ==
    /\ pc = "prerequisites_done"
    /\ CataloguePrerequisites = "MT1001"
    /\ ~in_list("MT1001", student.passed_modules)
    /\ PlannedSemester(student, args) = "S2"
    /\ \E i \in 1..Len(student.honours_module_choices) :
           /\ student.honours_module_choices[i].Module_code = "MT1001"
           /\ student.honours_module_choices[i].Semester = "S1"
           /\ year_number_of(student.honours_module_choices[i].Honours_year)
                  = PlannedYear(student, args)
    /\ ret.missed_prerequisites = "None"

(***************************************************************************)
(* The timetable clash detector.                                           *)
(***************************************************************************)

\* s[:-1]
without_last_character(s) == SubSeq(s, 1, Len(s) - 1)

\* s[:-1] if s.endswith(',') else s
without_trailing_comma(s) == IF endswith(s, ",") THEN without_last_character(s) ELSE s

\* the while loop over remaining_splits, two words per timeslot; it raises
\* IndexError when a word has no successor
RECURSIVE remaining_timeslots(_, _, _)
remaining_timeslots(remaining_splits, current_index, timeslots) ==
    IF current_index >= Len(remaining_splits)
    THEN [raised |-> FALSE, timeslots |-> timeslots]
    ELSE IF current_index + 2 > Len(remaining_splits)
    THEN [raised |-> TRUE, timeslots |-> timeslots]
    ELSE remaining_timeslots(remaining_splits, current_index + 2,
             Append(timeslots,
                 without_trailing_comma(remaining_splits[current_index + 1] \o " "
                                        \o remaining_splits[current_index + 2])))

\* get_timeslots_for_module: [raised, timeslots]
get_timeslots_for_module(module, catalogue) ==
    LET timeslot_entry == catalogue_entry(catalogue, module, "Timetable")
        timeslot_splits == split(timeslot_entry)
        raise == [raised |-> TRUE, timeslots |-> <<>>]
    IN  IF timeslot_entry = "10am Wed (odd weeks), 10am Fri (odd weeks)"
        THEN [raised |-> FALSE,
              timeslots |-> <<"10am Wed (odd weeks)", "10am Fri (odd weeks)">>]
        ELSE IF ~isinstance_str(timeslot_entry)
        THEN [raised |-> FALSE, timeslots |-> <<>>]
        ELSE IF Len(timeslot_splits) = 0 THEN raise
        ELSE IF Len(timeslot_splits) > 2 /\ startswith(timeslot_splits[3], "(")
        THEN IF Len(timeslot_splits) < 6 THEN raise
             ELSE LET first_timeslot == timeslot_splits[1]
                      second_timeslot ==
                          first_timeslot \o " " \o without_last_character(timeslot_splits[5])
                      third_timeslot ==
                          without_trailing_comma(first_timeslot \o " " \o timeslot_splits[6])
                      first_with_weeks ==
                          first_timeslot \o " " \o timeslot_splits[2] \o " "
                          \o timeslot_splits[3] \o " "
                          \o without_last_character(timeslot_splits[4])
                      remaining_splits ==
                          IF Len(timeslot_splits) > 7
                          THEN SubSeq(timeslot_splits, 7, Len(timeslot_splits))
                          ELSE <<>>
                  IN  remaining_timeslots(remaining_splits, 0,
                          <<first_with_weeks, second_timeslot, third_timeslot>>)
        ELSE IF Len(timeslot_splits) < 2 THEN raise
        ELSE LET first_timeslot ==
                     without_trailing_comma(timeslot_splits[1] \o " " \o timeslot_splits[2])
                 remaining_splits ==
                     IF Len(timeslot_splits) > 2
                     THEN SubSeq(timeslot_splits, 3, Len(timeslot_splits))
                     ELSE <<>>
             IN  remaining_timeslots(remaining_splits, 0, <<first_timeslot>>)

\* A dictionary is the sequence of its (key, value) items in insertion order.
dict_get(dictionary, key) ==
    (CHOOSE i \in 1..Len(dictionary) : dictionary[i].key = key) 

dict_value(dictionary, key) == dictionary[dict_get(dictionary, key)].value

\* the orders in which a set can be iterated: Python fixes the order of a
\* set of strings by their hashes, which change from run to run
IterationOrders(a_set) ==
    {order \in [1..Cardinality(a_set) -> a_set] :
        \A i, j \in 1..Cardinality(a_set) : i # j => order[i] # order[j]}

\* ' and '.join(a_list), as the enumerate loops of the warning string build it
RECURSIVE joined_by_and(_)
joined_by_and(a_list) ==
    IF a_list = <<>> THEN ""
    ELSE IF Len(a_list) = 1 THEN a_list[1]
    ELSE a_list[1] \o " and " \o joined_by_and(Tail(a_list))

\* all_timeslots: the timeslot lists of the dictionary, concatenated
RECURSIVE all_timeslots_of(_)
all_timeslots_of(module_dictionary) ==
    IF module_dictionary = <<>> THEN <<>>
    ELSE Head(module_dictionary).value \o all_timeslots_of(Tail(module_dictionary))


\* duplicate_timeslots, had the test been count > 2
duplicate_timeslots_more_than_twice(module_dictionary) ==
    LET all_timeslots == all_timeslots_of(module_dictionary)
    IN  SelectSeq(unique(all_timeslots), LAMBDA timeslot :
            Cardinality({i \in 1..Len(all_timeslots) : all_timeslots[i] = timeslot}) > 2)

\* the timeslots that collections.Counter counts more than once
duplicate_timeslots(module_dictionary) ==
    LET all_timeslots == all_timeslots_of(module_dictionary)
    IN  SelectSeq(unique(all_timeslots), LAMBDA timeslot :
            Cardinality({i \in 1..Len(all_timeslots) : all_timeslots[i] = timeslot}) > 1)

\* unique_module_clashes: for every duplicate timeslot the set of the modules
\* that have it
unique_module_clashes(module_dictionary) ==
    LET duplicate_entries == duplicate_timeslots(module_dictionary)
    IN  {{module_dictionary[i].key : i \in
            {j \in 1..Len(module_dictionary) :
                in_list(duplicate_entries[k], module_dictionary[j].value)}} :
         k \in 1..Len(duplicate_entries)}

\* affected_timeslots, had it kept the timeslots of any module of the
\* combination
affected_timeslots_of_any(module_combination, module_dictionary) ==
    {timeslot \in set_of(all_timeslots_of(module_dictionary)) :
        \E module \in module_combination :
            in_list(timeslot, dict_value(module_dictionary, module))}

\* the timeslots that all modules of the combination have
affected_timeslots(module_combination, module_dictionary) ==
    {timeslot \in set_of(all_timeslots_of(module_dictionary)) :
        \A module \in module_combination :
            in_list(timeslot, dict_value(module_dictionary, module))}

\* the warning strings that the combination can produce, one for every
\* iteration order of the frozenset of modules and of the set of timeslots
warning_strings(module_combination, module_dictionary, honours_year, semester) ==
    {"Clash for " \o honours_year \o " " \o semester \o " between modules "
        \o joined_by_and(modules) \o " at " \o joined_by_and(timeslots) :
     modules \in IterationOrders(module_combination),
     timeslots \in IterationOrders(affected_timeslots(module_combination,
                                                      module_dictionary))}

\* the sets of warning strings that the combinations can produce together
RECURSIVE warning_string_sets(_, _, _, _)
warning_string_sets(combinations, module_dictionary, honours_year, semester) ==
    IF combinations = {} THEN {{}}
    ELSE LET module_combination == CHOOSE c \in combinations : TRUE
         IN  {{warning_string} \cup others :
                 warning_string \in warning_strings(module_combination,
                     module_dictionary, honours_year, semester),
                 others \in warning_string_sets(
                     combinations \ {module_combination},
                     module_dictionary, honours_year, semester)}

\* find_clashing_timeslots_and_modules: the lists it can return; which one
\* is returned depends on the iteration order of the sets, and is the same
\* for every call on the same dictionary within one run
find_clashing_timeslots_and_modules(module_dictionary, honours_year, semester) ==
    UNION {IterationOrders(warnings) :
              warnings \in warning_string_sets(
                  unique_module_clashes(module_dictionary),
                  module_dictionary, honours_year, semester)}

\* the (honours year, semester) groups that find_timetable_clashes visits
semester_groups(a_student) ==
    LET remaining_honours_years ==
            unique(honours_years_of(a_student.honours_module_choices))
    IN  [i \in 1..(2 * Len(remaining_honours_years)) |->
            [honours_year |-> remaining_honours_years[(i + 1) \div 2],
             semester     |-> IF i % 2 = 1 THEN "S1" ELSE "S2"]]

\* the module codes planned for the honours year and semester
semester_modules_of(a_student, honours_year, semester) ==
    module_codes_of(SelectSeq(a_student.honours_module_choices, LAMBDA row :
        row.Semester = semester /\ row.Honours_year = honours_year))

\* timeslot_dictionary: a module planned twice in the semester keeps its
\* first position
timeslot_dictionary_of(semester_modules, catalogue) ==
    LET keys == unique(semester_modules)
    IN  [i \in 1..Len(keys) |->
            [key |-> keys[i],
             value |-> get_timeslots_for_module(keys[i], catalogue).timeslots]]

\* entry.replace(...) returns a new string that the loops discard, so the
\* lists of the copied dictionary stay as they are
reduced_timeslot_dictionary(timeslot_dictionary, qualifier) ==
    timeslot_dictionary

\* the lists that the three calls for one (honours year, semester) can add
\* to timetable_clashes_list; all three calls are made on timeslot_dictionary
semester_clash_lists(a_student, catalogue, honours_year, semester) ==
    LET timeslot_dictionary ==
            timeslot_dictionary_of(
                semester_modules_of(a_student, honours_year, semester), catalogue)
    IN  {found \o found \o found :
            found \in find_clashing_timeslots_and_modules(timeslot_dictionary,
                          honours_year, semester)}

\* the values that timetable_clashes_list can have after the given groups
RECURSIVE timetable_clashes_lists(_, _, _)
timetable_clashes_lists(a_student, catalogue, groups) ==
    IF groups = <<>> THEN {<<>>}
    ELSE LET last == groups[Len(groups)]
         IN  {before \o found :
                 before \in timetable_clashes_lists(a_student, catalogue,
                                SubSeq(groups, 1, Len(groups) - 1)),
                 found \in semester_clash_lists(a_student, catalogue,
                               last.honours_year, last.semester)}

\* whether get_timeslots_for_module raises for a planned module
timeslots_raise(a_student, catalogue) ==
    \E i \in 1..Len(a_student.planned_honours_modules) :
        get_timeslots_for_module(a_student.planned_honours_modules[i], catalogue).raised

\* find_timetable_clashes: the results it can return.  list(set(...)) puts
\* the distinct warning strings in the iteration order of a set.
find_timetable_clashes(a_student, catalogue) ==
    IF timeslots_raise(a_student, catalogue)
    THEN {[raised |-> TRUE, timetable_clashes_list |-> <<>>,
           timetable_clashes |-> NaN, adviser_recommendations |-> NaN]}
    ELSE {[raised |-> FALSE,
           timetable_clashes_list |-> deduplicated,
           timetable_clashes |-> merge_list_to_long_string(deduplicated),
           adviser_recommendations |-> merge_list_to_long_string(<<>>)] :
          deduplicated \in UNION {IterationOrders(set_of(collected)) :
              collected \in timetable_clashes_lists(a_student, catalogue,
                                semester_groups(a_student))}}

(***************************************************************************)
(* Direct calls of find_timetable_clashes on small students.               *)
(***************************************************************************)

ClashModules == {"MT4003", "MT4004", "MT4005"}

\* timetable entries of the catalogue rows of the ClashModules
TimetableStrings ==
    {NaN, "10am Mon", "11am Tue", "10am Mon, 11am Tue", "10am Mon, 2pm Thu"}

ClashCatalogue(first, second, third) ==
    <<[Module_code |-> "MT4003", Semester |-> "S1", Year |-> "2023/2024",
       Alternate_years |-> "No", Prerequisites |-> NaN,
       Antirequisites |-> NaN, Timetable |-> first],
      [Module_code |-> "MT4004", Semester |-> "S1", Year |-> "2023/2024",
       Alternate_years |-> "No", Prerequisites |-> NaN,
       Antirequisites |-> NaN, Timetable |-> second],
      [Module_code |-> "MT4005", Semester |-> "S1", Year |-> "2023/2024",
       Alternate_years |-> "No", Prerequisites |-> NaN,
       Antirequisites |-> NaN, Timetable |-> third]>>

\* the timetable entries that each of the three rows can have
ClashTimetables ==
    <<{"10am Mon", "10am Mon, 2pm Thu"},
      TimetableStrings,
      {NaN, "11am Tue", "10am Mon"}>>

ClashInit ==
    /\ \E first \in ClashTimetables[1], second \in ClashTimetables[2],
          third \in ClashTimetables[3] :
           module_catalogue = ClashCatalogue(first, second, third)
    /\ form_files = <<>>
    /\ list_of_data_frames = <<>>
    /\ \E first_year \in 1..2 :
       \E rows \in PlannedRowLists(ClashModules, first_year) :
           student = Student(190000002, "B Student", "bs2@example.org",
                             MathematicsBSc, first_year + 2, 2, first_year,
                             <<>>, <<>>, honours_module_table(rows))
    /\ locals = NoLocals
    /\ pc = "clashes_call"
    /\ args = NoValue
    /\ ret = NoValue

ClashCall ==
    /\ pc = "clashes_call"
    /\ ret' \in find_timetable_clashes(student, module_catalogue)
    /\ pc' = "clashes_done"
    /\ UNCHANGED <<module_catalogue, form_files, list_of_data_frames, student,
                   locals, args>>

ClashNext == ClashCall

SpecClash == ClashInit /\ [][ClashNext]_vars

\* the timeslot tokens of the modules of the catalogue
TimeslotsOf ==
    [module \in ClashModules |->
        set_of(get_timeslots_for_module(module, module_catalogue).timeslots)]

\* the distinct modules planned for an honours year and semester
ModulesOfGroup(group) ==
    set_of(semester_modules_of(student, group.honours_year, group.semester))

\* the clash messages of the result that are about the group
MessagesOfGroup(group) ==
    {message \in set_of(ret.timetable_clashes_list) :
        startswith(message, "Clash for " \o group.honours_year \o " "
                            \o group.semester \o " ")}

\* two modules share exactly one timeslot and a third module shares no
\* timeslot with either
TwoClashOneFree(timeslots, first, second, third) ==
    /\ Cardinality(timeslots[first] \cap timeslots[second]) = 1
    /\ timeslots[third] \cap (timeslots[first] \cup timeslots[second]) = {}

\* what C5 says of a group of the three modules first, second and third
OneClashMessage(group, timeslots, first, second, third) ==
    LET timeslot == CHOOSE t \in timeslots[first] \cap timeslots[second] : TRUE
        start == "Clash for " \o group.honours_year \o " "
                 \o group.semester \o " between modules "
    IN  /\ ~ret.raised
        /\ Cardinality(MessagesOfGroup(group)) = 1
        /\ MessagesOfGroup(group) \subseteq
               {start \o first \o " and " \o second \o " at " \o timeslot,
                start \o second \o " and " \o first \o " at " \o timeslot}
        /\ \A j \in 1..Len(ret.timetable_clashes_list) :
               ~str_contains(ret.timetable_clashes_list[j], third)

\* C5: two modules of a group that share exactly one timeslot, with a third
\* module of the group that shares none, give exactly one clash message for
\* the group; it names both modules and the timeslot, and no message of the
\* result mentions the third module.
C5_OneClashMessageForTwoModules ==
    pc = "clashes_done" =>
        LET timeslots == TimeslotsOf
            groups == semester_groups(student)
        IN  \A i \in 1..Len(groups) :
                LET modules == ModulesOfGroup(groups[i])
                IN  Cardinality(modules) = 3 =>
                        \A first \in modules : \A second \in modules \ {first} :
                            LET third == CHOOSE m \in modules : m \notin {first, second}
                            IN  TwoClashOneFree(timeslots, first, second, third)
                                    => OneClashMessage(groups[i], timeslots,
                                                       first, second, third)

\* C5 witness: MT4003 and MT4004 share only 10am Mon, MT4005 of the same
\* group has another timeslot, and the clash has been reported
C5_Witness ==
    /\ pc = "clashes_done"
    /\ \E i \in 1..Len(semester_groups(student)) :
           ModulesOfGroup(semester_groups(student)[i]) = ClashModules
    /\ TimeslotsOf["MT4003"] \cap TimeslotsOf["MT4004"] = {"10am Mon"}
    /\ TimeslotsOf["MT4005"] = {"11am Tue"}
    /\ str_contains(ret.timetable_clashes, "MT4003")
    /\ str_contains(ret.timetable_clashes, "MT4004")
    /\ str_contains(ret.timetable_clashes, "10am Mon")
    /\ ~str_contains(ret.timetable_clashes, "MT4005")

(***************************************************************************)
(* The programme requirement checker.                                      *)
(***************************************************************************)

\* len(data_frame[data_frame['Semester'] == semester])
semester_count(data_frame, semester) ==
    Len(SelectSeq(data_frame, LAMBDA row : row.Semester = semester))

\* student.honours_module_choices[... ['Honours year'] == honours_year]
rows_of_year(a_student, honours_year) ==
    SelectSeq(a_student.honours_module_choices,
              LAMBDA row : row.Honours_year = honours_year)

\* the first loop of check_for_120_credits_each_year: the total number of
\* modules of every honours year that has planned rows
credit_findings(a_student, honours_years) ==
    LET wrong_total(honours_year) ==
            \/ /\ honours_year \in {"Year 1", "Year 2"}
               /\ Len(rows_of_year(a_student, honours_year)) # 8
            \/ /\ honours_year = "Year 3"
               /\ Len(rows_of_year(a_student, honours_year)) # 7
        wrong_years == SelectSeq(honours_years, wrong_total)
    IN  [i \in 1..Len(wrong_years) |->
            "Not collecting 120 credits in " \o wrong_years[i]]

\* the body of the second loop for one honours year; this_data_base is the
\* data frame that the first loop left behind, and both semester lists of
\* the final years are selected with 'S1'
split_recommendations(a_student, honours_year, this_data_base) ==
    IF \/ honours_year = "Year 1"
       \/ (honours_year = "Year 2" /\ a_student.expected_honours_years = 3)
    THEN (IF semester_count(this_data_base, "S1") # 4
          THEN <<"Not taking even credit split in " \o honours_year>> ELSE <<>>)
         \o (IF semester_count(this_data_base, "S2") # 4
             THEN <<"Not taking even credit split in " \o honours_year>> ELSE <<>>)
    ELSE IF honours_year = "Year 2"
    THEN LET this_reduced_data_base ==
                 SelectSeq(this_data_base, LAMBDA row : row.Module_code # "MT4599")
             semester_1_modules == semester_count(this_reduced_data_base, "S1")
             semester_2_modules == semester_count(this_reduced_data_base, "S1")
         IN  IF semester_1_modules # 4 \/ semester_2_modules # 3
             THEN <<"Student is taking a high course load in second semester of final honours year">>
             ELSE <<>>
    ELSE IF honours_year = "Year 3"
    THEN LET this_reduced_data_base ==
                 SelectSeq(this_data_base, LAMBDA row : row.Module_code # "MT5599")
             semester_1_modules == semester_count(this_reduced_data_base, "S1")
             semester_2_modules == semester_count(this_reduced_data_base, "S1")
         IN  IF semester_1_modules # 3 \/ semester_2_modules # 3
             THEN <<"Student is taking uneven course load in final honours year">>
             ELSE <<>>
    ELSE <<>>

RECURSIVE split_recommendations_loop(_, _, _)
split_recommendations_loop(a_student, honours_years, this_data_base) ==
    IF honours_years = <<>> THEN <<>>
    ELSE split_recommendations(a_student, Head(honours_years), this_data_base)
         \o split_recommendations_loop(a_student, Tail(honours_years), this_data_base)

check_for_120_credits_each_year(a_student) ==
    LET honours_years == unique(honours_years_of(a_student.honours_module_choices))
        list_of_missed_requirements == credit_findings(a_student, honours_years)
        \* the rows of the last honours year of the first loop
        this_data_base ==
            IF honours_years = <<>> THEN <<>>
            ELSE rows_of_year(a_student, honours_years[Len(honours_years)])
        list_of_adviser_recommendations ==
            split_recommendations_loop(a_student, honours_years, this_data_base)
    IN  [list_of_missed_requirements |-> list_of_missed_requirements,
         list_of_adviser_recommendations |-> list_of_adviser_recommendations,
         missed_requirement |-> merge_list_to_long_string(list_of_missed_requirements),
         adviser_recommendation |->
             merge_list_to_long_string(list_of_adviser_recommendations)]


\* duplicate_module_findings, had the duplicates been collected from the
\* full module list instead of the keys of the Counter
duplicate_module_findings_repeating(a_student) ==
    LET full_module_list == a_student.full_module_list
        duplicate_entries ==
            SelectSeq(full_module_list, LAMBDA module :
                Cardinality({i \in 1..Len(full_module_list) :
                                full_module_list[i] = module}) > 1)
        RECURSIVE separated(_)
        separated(entries) ==
            IF entries = <<>> THEN ""
            ELSE Head(entries)
                 \o (IF Head(entries) # duplicate_entries[Len(duplicate_entries)]
                     THEN ", " ELSE "")
                 \o separated(Tail(entries))
    IN  IF Cardinality(set_of(full_module_list)) # Len(full_module_list)
        THEN <<"Student selected the following modules twice: "
               \o separated(duplicate_entries)>>
        ELSE <<>>

\* the sanity check on modules selected twice
duplicate_module_findings(a_student) ==
    LET full_module_list == a_student.full_module_list
        duplicate_entries ==
            SelectSeq(unique(full_module_list), LAMBDA module :
                Cardinality({i \in 1..Len(full_module_list) :
                                full_module_list[i] = module}) > 1)
        separated == [i \in 1..Len(duplicate_entries) |->
                        duplicate_entries[i]
                        \o (IF duplicate_entries[i] # duplicate_entries[Len(duplicate_entries)]
                            THEN ", " ELSE "")]
        RECURSIVE concatenated(_)
        concatenated(strings) ==
            IF strings = <<>> THEN "" ELSE Head(strings) \o concatenated(Tail(strings))
    IN  IF Cardinality(set_of(full_module_list)) # Len(full_module_list)
        THEN <<"Student selected the following modules twice: "
               \o concatenated(separated)>>
        ELSE <<>>

\* unknown_module_findings, had every planned MT module been reported
unknown_module_findings_of_all(a_student, catalogue) ==
    LET unknown == SelectSeq(a_student.planned_honours_modules, LAMBDA module :
                       startswith(module, "MT"))
    IN  [i \in 1..Len(unknown) |->
            "Student is planning to take " \o unknown[i] \o " (which does not exist)"]

\* the planned MT modules that the catalogue does not have
unknown_module_findings(a_student, catalogue) ==
    LET unknown == SelectSeq(a_student.planned_honours_modules, LAMBDA module :
                       /\ startswith(module, "MT")
                       /\ ~in_list(module, module_codes_of(catalogue)))
    IN  [i \in 1..Len(unknown) |->
            "Student is planning to take " \o unknown[i] \o " (which does not exist)"]

\* neither 'MT2', 'MT3', 'MT4' nor 'MT5' occurs in the module code
is_non_maths_module(module) ==
    /\ ~str_contains(module, "MT2")
    /\ ~str_contains(module, "MT3")
    /\ ~str_contains(module, "MT4")
    /\ ~str_contains(module, "MT5")

list_of_MT350X_modules ==
    <<"MT3501", "MT3502", "MT3503", "MT3504", "MT3505", "MT3506", "MT3507", "MT3508">>

list_of_computing_modules == <<"MT3510", "MT4111", "MT4112", "MT4113">>

list_of_project_codes == <<"MT4598", "MT4599">>

unallowed_modules == <<"MT4794", "MT4795", "MT4796", "MT4797">>

\* the final year project rule: [raised, missed]; .iloc[0] raises IndexError
\* when the project is not among the planned modules
project_findings(a_student) ==
    LET project == IF in_list("MT4598", a_student.full_module_list)
                   THEN "MT4598" ELSE "MT4599"
        selected == rows_of_module(a_student, project)
    IN  IF get_number_of_modules_in_list(a_student, list_of_project_codes) # 1
        THEN [raised |-> FALSE,
              missed |-> <<"Student is not taking an allowed final year project">>]
        ELSE IF Len(selected) = 0
        THEN [raised |-> TRUE, missed |-> <<>>]
        ELSE IF selected[1].Honours_year # "Year 2"
        THEN [raised |-> FALSE,
              missed |-> <<"Student is not taking their final year project in their final year.">>]
        ELSE [raised |-> FALSE, missed |-> <<>>]

\* the rules of the Mathematics BSc before the final year project rule
requirements_before_project(a_student) ==
    LET number_of_MT350X_modules ==
            get_number_of_modules_in_list(a_student, list_of_MT350X_modules)
    IN  <<check_for_120_credits_each_year(a_student).missed_requirement>>
        \o (IF number_of_MT350X_modules < 4
            THEN <<"Student is only taking " \o str(number_of_MT350X_modules)
                   \o "out of MT3501-MT3508">>
            ELSE <<>>)
        \o (IF get_number_of_modules_in_list(a_student, list_of_computing_modules) = 0
            THEN <<"Student is not taking a computing module">> ELSE <<>>)

\* the rules of the Mathematics BSc after the final year project rule
requirements_after_project(a_student) ==
    (IF get_number_of_modules_in_list(a_student, unallowed_modules) > 0
     THEN <<"Student is taking a module in MT4794-MT4797">> ELSE <<>>)
    \o (IF Len(SelectSeq(a_student.all_honours_modules, is_non_maths_module)) > 2
        THEN <<"Student is taking more than 2 modules as dip-down or dip-across, which is not allowed.">>
        ELSE <<>>)
    \o (IF Len(SelectSeq(a_student.all_honours_modules, LAMBDA module :
                   str_contains(module, "MT4") \/ str_contains(module, "MT5"))) < 6
        THEN <<"Student is not planning to take enough credits at 4000 level or above">>
        ELSE <<>>)

\* the reminders to get permissions
permission_recommendations(a_student) ==
    (IF Len(SelectSeq(a_student.planned_honours_modules,
                LAMBDA module : str_contains(module, "MT5"))) > 0
     THEN <<"Student is planning to take 5000 level modules (which will require permission)">>
     ELSE <<>>)
    \o (IF Len(SelectSeq(a_student.planned_honours_modules,
                   LAMBDA module : str_contains(module, "MT2"))) > 0
        THEN <<"Student is planning to take 2000 level modules, (which will require permission)">>
        ELSE <<>>)
    \o (IF Len(SelectSeq(a_student.planned_honours_modules, is_non_maths_module)) > 0
        THEN <<"Student is planning to take non-MT modules, which requires permission">>
        ELSE <<>>)

\* find_missing_programme_requirements; when it raises, the lists are the
\* ones collected until then and nothing is returned
find_missing_programme_requirements(a_student, catalogue) ==
    LET sanity == duplicate_module_findings(a_student)
                  \o unknown_module_findings(a_student, catalogue)
        is_mathematics == a_student.programme_name = MathematicsBSc
        project == project_findings(a_student)
        raised == is_mathematics /\ project.raised
        list_of_missed_requirements ==
            IF ~is_mathematics
            THEN sanity \o <<"No programme requirements available">>
            ELSE IF raised
            THEN sanity \o requirements_before_project(a_student)
            ELSE sanity \o requirements_before_project(a_student)
                 \o project.missed \o requirements_after_project(a_student)
        list_of_adviser_recommendations ==
            IF ~is_mathematics THEN <<>>
            ELSE IF raised
            THEN <<check_for_120_credits_each_year(a_student).adviser_recommendation>>
            ELSE <<check_for_120_credits_each_year(a_student).adviser_recommendation>>
                 \o permission_recommendations(a_student)
    IN  [raised |-> raised,
         list_of_missed_requirements |-> list_of_missed_requirements,
         list_of_adviser_recommendations |-> list_of_adviser_recommendations,
         missed_requirements |->
             IF raised THEN NaN
             ELSE merge_list_to_long_string(list_of_missed_requirements),
         adviser_recommendations |->
             IF raised THEN NaN
             ELSE merge_list_to_long_string(list_of_adviser_recommendations)]

(***************************************************************************)
(* Direct calls of check_for_120_credits_each_year on students with a      *)
(* given number of entries in every semester.                              *)
(***************************************************************************)

MaxPerSemester == 5

\* the k-th entry of a form slot: a code that no other entry has
filler_module(slot, k) == "MT" \o str(4000 + 10 * slot + k)

\* the rows of the form: counts[slot] entries for every slot, and the
\* project MT4599 at the end of the given semester of Year 2 (0: no project)
RECURSIVE counted_rows(_, _, _)
counted_rows(counts, slot, project_semester) ==
    IF slot > Len(FormSlots) THEN <<>>
    ELSE [k \in 1..counts[slot] |->
             honours_module_row(FormSlots[slot][1], FormSlots[slot][2],
                                filler_module(slot, k))]
         \o (IF FormSlots[slot] = <<2, project_semester>>
             THEN <<honours_module_row(2, project_semester, "MT4599")>>
             ELSE <<>>)
         \o counted_rows(counts, slot + 1, project_semester)

CreditsInit ==
    /\ module_catalogue = <<>>
    /\ form_files = <<>>
    /\ list_of_data_frames = <<>>
    /\ \E first_year \in 1..2, project_semester \in 0..2 :
       \E counts \in [1..Len(FormSlots) -> 0..MaxPerSemester] :
           /\ \A slot \in 1..Len(FormSlots) :
                  FormSlots[slot][1] < first_year => counts[slot] = 0
           /\ student = Student(190000003, "C Student", "cs3@example.org",
                                MathematicsBSc, first_year + 2, 2, first_year,
                                <<>>, <<>>,
                                counted_rows(counts, 1, project_semester))
    /\ locals = NoLocals
    /\ pc = "credits_call"
    /\ args = NoValue
    /\ ret = NoValue

CreditsCall ==
    /\ pc = "credits_call"
    /\ ret' = check_for_120_credits_each_year(student)
    /\ pc' = "credits_done"
    /\ UNCHANGED <<module_catalogue, form_files, list_of_data_frames, student,
                   locals, args>>

CreditsNext == CreditsCall

SpecCredits == CreditsInit /\ [][CreditsNext]_vars

\* the number of planned entries of honours year N
EntriesOfYear(a_student, year_number) ==
    Cardinality({i \in 1..Len(a_student.honours_module_choices) :
        a_student.honours_module_choices[i].Honours_year = "Year " \o str(year_number)})

RequiredEntries(year_number) == IF year_number = 3 THEN 7 ELSE 8

\* C6: for every honours year N that the student still has to plan, 'Not
\* collecting 120 credits in Year N' is emitted if and only if the number
\* of planned entries of Year N, from 0 upward, differs from 8 (7 for N = 3).
C6_CreditFindingIffWrongCount ==
    pc = "credits_done" =>
        \A year_number \in student.current_honours_year..student.expected_honours_years :
            in_list("Not collecting 120 credits in Year " \o str(year_number),
                    ret.list_of_missed_requirements)
                <=> EntriesOfYear(student, year_number) # RequiredEntries(year_number)

(***************************************************************************)
(* Direct calls of find_missing_programme_requirements on small students.  *)
(***************************************************************************)

ProgrammeModules == {"MT3501", "MT4599", "MT4999"}

ProgrammePassedLists ==
    {<<>>, <<"MT3501">>, <<"MT4599">>, <<"MT3501", "MT4599">>, <<"MT3501", "MT3501">>}

MathematicsMMath == "Master in Mathematics (Honours) Mathematics"

ProgrammeCatalogue ==
    <<[Module_code |-> "MT3501", Semester |-> "S1", Year |-> "2023/2024",
       Alternate_years |-> "No", Prerequisites |-> NaN,
       Antirequisites |-> NaN, Timetable |-> "9am Mon"],
      [Module_code |-> "MT4599", Semester |-> "Full Year", Year |-> "2023/2024",
       Alternate_years |-> "No", Prerequisites |-> NaN,
       Antirequisites |-> NaN, Timetable |-> NaN]>>

ProgrammeInit ==
    /\ module_catalogue = ProgrammeCatalogue
    /\ form_files = <<>>
    /\ list_of_data_frames = <<>>
    /\ \E passed \in ProgrammePassedLists, first_year \in 1..2,
          programme \in {MathematicsBSc, MathematicsMMath} :
       \E rows \in PlannedRowLists(ProgrammeModules, first_year) :
           student = Student(190000004, "D Student", "ds4@example.org",
                             programme, first_year + 2,
                             IF programme = MathematicsBSc THEN 2 ELSE 3,
                             first_year, passed, <<>>, honours_module_table(rows))
    /\ locals = NoLocals
    /\ pc = "programme_call"
    /\ args = NoValue
    /\ ret = NoValue

ProgrammeCall ==
    /\ pc = "programme_call"
    /\ ret' = find_missing_programme_requirements(student, module_catalogue)
    /\ pc' = "programme_done"
    /\ UNCHANGED <<module_catalogue, form_files, list_of_data_frames, student,
                   locals, args>>

ProgrammeNext == ProgrammeCall

SpecProgramme == ProgrammeInit /\ [][ProgrammeNext]_vars

\* the number of times a module occurs in a list
TimesInList(a_list, module) ==
    Cardinality({i \in 1..Len(a_list) : a_list[i] = module})

\* the number of places of a string where the substring occurs
Occurrences(s, sub) ==
    Cardinality({i \in 1..Len(s) :
        i + Len(sub) - 1 <= Len(s) /\ SubSeq(s, i, i + Len(sub) - 1) = sub})

\* the module codes that occur more than once in the full module list
DuplicatedModules(a_student) ==
    {module \in set_of(a_student.full_module_list) :
        TimesInList(a_student.full_module_list, module) > 1}

\* the findings about modules selected twice
DuplicateFindings ==
    SelectSeq(ret.list_of_missed_requirements, LAMBDA finding :
        startswith(finding, "Student selected the following modules twice"))

find_missing_prerequisites(a_student, catalogue) ==
    LET planned == a_student.planned_honours_modules
        merged(results) ==
            IF \E i \in 1..Len(results) : results[i].raised
            THEN [raised |-> TRUE, missed_prerequisites |-> NaN,
                  adviser_recommendations |-> NaN]
            ELSE [raised |-> FALSE,
                  missed_prerequisites |->
                      merge_list_to_long_string(
                          [i \in 1..Len(results) |-> results[i].missed_prerequisites]),
                  adviser_recommendations |->
                      merge_list_to_long_string(
                          [i \in 1..Len(results) |-> results[i].adviser_recommendations])]
    IN  merged([i \in 1..Len(planned) |->
                   get_missing_prerequisites_for_module(planned[i], a_student, catalogue)])

\* running_academic_years, had the loop made three repeats instead of four
running_academic_years_of_three_repeats(module_academic_year, module_is_alternating) ==
    LET start_year == int(SubSeq(module_academic_year, 1, 4))
        step == IF module_is_alternating THEN 2 ELSE 1
    IN  <<module_academic_year>>
        \o [repeat_index \in 1..3 |->
               str(start_year + step * (repeat_index - 1)) \o "/"
               \o str(start_year + step * (repeat_index - 1) + 1)]

\* list_of_running_academic_years of a catalogue row
running_academic_years(module_academic_year, module_is_alternating) ==
    LET start_year == int(SubSeq(module_academic_year, 1, 4))
        step == IF module_is_alternating THEN 2 ELSE 1
    IN  <<module_academic_year>>
        \o [repeat_index \in 1..4 |->
               str(start_year + step * (repeat_index - 1)) \o "/"
               \o str(start_year + step * (repeat_index - 1) + 1)]

\* not_running_findings, had an entry of 'Alternate years' other than 'Yes'
\* been read as 'No' instead of raising ValueError
not_running_findings_reading_no(row, catalogue) ==
    LET planned_module_code == row.Module_code
        entries == catalogue_rows(catalogue, planned_module_code)
        module_semester == entries[1].Semester
        wrong_semester ==
            IF row.Semester # module_semester /\ module_semester # "Full Year"
            THEN <<"Selected module " \o planned_module_code \o " for Semester "
                   \o row.Semester \o " but it is actually running in "
                   \o module_semester>>
            ELSE <<>>
        wrong_year ==
            IF ~in_list(row.Academic_year,
                        running_academic_years(entries[1].Year,
                            entries[1].Alternate_years = "Yes"))
            THEN <<"Selected module " \o planned_module_code
                   \o " is not running in academic year " \o row.Academic_year>>
            ELSE <<>>
    IN  IF Len(entries) = 0 THEN [raised |-> FALSE, findings |-> <<>>]
        ELSE [raised |-> FALSE, findings |-> wrong_semester \o wrong_year]

\* the body of the loop of find_not_running_modules for one planned row:
\* [raised, findings]
not_running_findings(row, catalogue) ==
    LET planned_module_code == row.Module_code
        entries == catalogue_rows(catalogue, planned_module_code)
        module_semester == entries[1].Semester
        module_is_alternating_entry == entries[1].Alternate_years
        wrong_semester ==
            IF row.Semester # module_semester /\ module_semester # "Full Year"
            THEN <<"Selected module " \o planned_module_code \o " for Semester "
                   \o row.Semester \o " but it is actually running in "
                   \o module_semester>>
            ELSE <<>>
        wrong_year ==
            IF ~in_list(row.Academic_year,
                        running_academic_years(entries[1].Year,
                            module_is_alternating_entry = "Yes"))
            THEN <<"Selected module " \o planned_module_code
                   \o " is not running in academic year " \o row.Academic_year>>
            ELSE <<>>
    IN  IF Len(entries) = 0 THEN [raised |-> FALSE, findings |-> <<>>]
        ELSE IF module_is_alternating_entry \notin {"Yes", "No"}
        THEN [raised |-> TRUE, findings |-> wrong_semester]
        ELSE [raised |-> FALSE, findings |-> wrong_semester \o wrong_year]

RECURSIVE concatenated_findings(_)
concatenated_findings(results) ==
    IF results = <<>> THEN <<>>
    ELSE Head(results).findings \o concatenated_findings(Tail(results))

find_not_running_modules(a_student, catalogue) ==
    LET choices == a_student.honours_module_choices
        results == [i \in 1..Len(choices) |-> not_running_findings(choices[i], catalogue)]
        raised == \E i \in 1..Len(results) : results[i].raised
    IN  [raised |-> raised,
         not_running_modules |->
             IF raised THEN NaN
             ELSE merge_list_to_long_string(concatenated_findings(results)),
         adviser_recommendations |->
             IF raised THEN NaN ELSE merge_list_to_long_string(<<>>)]

(***************************************************************************)
(* parse_excel_form.  A form is a record with its filename, the cell D5    *)
(* and the sections of column B of its sheet; a cell is a record with the  *)
(* Python type of its value, in text or in number.  A student data table is a sequence of rows   *)
(* with the columns Student_ID, Module_code, Year, Assessment_result,      *)
(* Programme_name, Given_names, Family_name and Email.                     *)
(***************************************************************************)

\* s.strip(), for blanks
strip(s) ==
    LET characters == {i \in 1..Len(s) : CharAt(s, i) # " "}
    IN  IF characters = {} THEN ""
        ELSE SubSeq(s, nth_smallest(characters, 1),
                       nth_smallest(characters, Cardinality(characters)))

\* get_modules_under_header: [raised, modules].  The last row of column B
\* that contains the header gives the row number; without such a row the
\* use of row_number raises UnboundLocalError.
get_modules_under_header(sheet, header) ==
    LET sections == SelectSeq(sheet, LAMBDA section : str_contains(section.header, header))
        cells == sections[Len(sections)].cells
    IN  IF Len(sections) = 0 THEN [raised |-> TRUE, modules |-> <<>>]
        ELSE [raised |-> FALSE,
              modules |-> [i \in 1..Len(cells) |->
                  strip(IF cells[i].type = "int"
                        THEN "MT" \o str(cells[i].number)
                        ELSE cells[i].text)]]

\* the rows that one remaining honours year adds to module_table
module_table_of_year(sheet, remaining_honours_year) ==
    LET year_key == "Year " \o str(remaining_honours_year)
        semester(semester_number) ==
            get_modules_under_header(sheet,
                year_key \o " of Honours: Semester " \o str(semester_number))
        rows(semester_number) ==
            [i \in 1..Len(semester(semester_number).modules) |->
                honours_module_row(remaining_honours_year, semester_number,
                                   semester(semester_number).modules[i])]
    IN  [raised |-> semester(1).raised \/ semester(2).raised,
         rows |-> rows(1) \o rows(2)]

\* module_table for the honours years from..to
RECURSIVE module_table(_, _, _)
module_table(sheet, from, to) ==
    IF from > to THEN [raised |-> FALSE, rows |-> <<>>]
    ELSE LET first == module_table_of_year(sheet, from)
             rest == module_table(sheet, from + 1, to)
         IN  [raised |-> first.raised \/ rest.raised,
              rows |-> first.rows \o rest.rows]

\* [no_of_programme_years, expected_honours_years], or none for a programme
\* that is not recognised
programme_years(programme_name) ==
    IF str_contains(programme_name, "Bachelor of Science") THEN <<4, 2>>
    ELSE IF str_contains(programme_name, "Master in Mathematics") THEN <<5, 3>>
    ELSE IF str_contains(programme_name, "Master of Arts (Honours)") THEN <<4, 2>>
    ELSE IF programme_name = "Master in Chemistry (Honours) Chemistry with Mathematics"
    THEN <<5, 3>>
    ELSE IF programme_name = "Master in Physics (Honours) Mathematics and Theoretical Physics"
    THEN <<5, 3>>
    ELSE <<>>

\* the passed modules of the honours years before the current one
RECURSIVE passed_honours_modules_of(_, _, _)
passed_honours_modules_of(data_base_of_passed_modules, previous_honours_year, current_honours_year) ==
    IF previous_honours_year >= current_honours_year THEN <<>>
    ELSE LET year_number == 23 - (current_honours_year - previous_honours_year)
             calendar_year_string == "20" \o str(year_number) \o "/20" \o str(year_number + 1)
         IN  module_codes_of(SelectSeq(data_base_of_passed_modules,
                 LAMBDA row : row.Year = calendar_year_string))
             \o passed_honours_modules_of(data_base_of_passed_modules,
                    previous_honours_year + 1, current_honours_year)

\* the minimum of a non-empty list of numbers
list_min(numbers) ==
    CHOOSE n \in set_of(numbers) : \A other \in set_of(numbers) : n <= other

\* the rows of the first table that has the student ID
student_data_base_of(tables, student_id) ==
    LET found == SelectSeq(tables, LAMBDA table :
                     \E i \in 1..Len(table) : table[i].Student_ID = student_id)
    IN  IF found = <<>> THEN <<>>
        ELSE SelectSeq(found[1], LAMBDA row : row.Student_ID = student_id)

Raised == [kind |-> "raised"]

Warning(message) == [kind |-> "str", value |-> message]

\* parse_excel_form: a Student, a warning string, or a raised exception
parse_excel_form(form, tables) ==
    LET student_id == form.D5.number
        student_data_base == student_data_base_of(tables, student_id)
        column(name) == [i \in 1..Len(student_data_base) |-> student_data_base[i][name]]
        year_of_study ==
            2023 - list_min([i \in 1..Len(student_data_base) |->
                                int(SubSeq(student_data_base[i].Year, 1, 4))]) + 1
        data_base_of_passed_modules ==
            SelectSeq(student_data_base, LAMBDA row : row.Assessment_result = "P")
        programme_name == unique(column("Programme_name"))[1]
        years == programme_years(programme_name)
        no_of_programme_years ==
            IF in_list("EXA120", column("Module_code")) THEN years[1] - 1 ELSE years[1]
        expected_honours_years == years[2]
        current_honours_year == year_of_study - (no_of_programme_years - expected_honours_years)
        table == module_table(form.sheet, current_honours_year, expected_honours_years)
    IN  IF form.D5.type # "int" THEN Warning("No student ID")
        ELSE IF student_data_base = <<>>
        THEN Warning("contains invalid student ID " \o str(student_id))
        ELSE IF \/ Len(unique(column("Programme_name"))) # 1
                \/ Len(unique(column("Given_names"))) # 1
                \/ Len(unique(column("Family_name"))) # 1
        THEN Raised
        ELSE IF Len(unique(column("Email"))) # 1 THEN Raised
        ELSE IF years = <<>>
        THEN Warning("Do not recognise student programme for parsing: " \o programme_name)
        ELSE IF table.raised THEN Raised
        ELSE Student(student_id,
                     unique(column("Given_names"))[1] \o " "
                         \o unique(column("Family_name"))[1],
                     unique(column("Email"))[1],
                     programme_name, year_of_study, expected_honours_years,
                     current_honours_year,
                     module_codes_of(data_base_of_passed_modules),
                     passed_honours_modules_of(data_base_of_passed_modules, 1,
                                               current_honours_year),
                     table.rows)

(***************************************************************************)
(* process_form_file and process_folder.                                   *)
(***************************************************************************)

\* warning_message_of, had the branch for a programme that is not recognised
\* been left out
warning_message_without_programme(filename, student_or_warning) ==
    IF student_or_warning = "No student ID"
    THEN [raised |-> FALSE,
          message |-> "Could not process " \o filename
                      \o ". The file does not contain a valid student ID."]
    ELSE IF startswith(student_or_warning, "contains invalid student ID")
    THEN [raised |-> FALSE,
          message |-> "Could not process " \o filename \o ". The file "
                      \o student_or_warning]
    ELSE [raised |-> TRUE, message |-> NaN]

\* the three warning messages of process_form_file; any other string leaves
\* warning_message unbound
warning_message_of(filename, student_or_warning) ==
    IF student_or_warning = "No student ID"
    THEN [raised |-> FALSE,
          message |-> "Could not process " \o filename
                      \o ". The file does not contain a valid student ID."]
    ELSE IF startswith(student_or_warning, "contains invalid student ID")
    THEN [raised |-> FALSE,
          message |-> "Could not process " \o filename \o ". The file "
                      \o student_or_warning]
    ELSE IF startswith(student_or_warning, "Do not recognise student programme for parsing:")
    THEN [raised |-> FALSE,
          message |-> "Could not process " \o filename \o ". " \o student_or_warning]
    ELSE [raised |-> TRUE, message |-> NaN]

\* generate_summary_data_frame_from_entries: one row with the nine columns
generate_summary_data_frame_from_entries(data_list) ==
    [Student_ID                   |-> data_list[1],
     Name                         |-> data_list[2],
     Programme                    |-> data_list[3],
     Hon_year                     |-> data_list[4],
     Unmet_programme_requirements |-> data_list[5],
     Missing_prerequisites        |-> data_list[6],
     Modules_not_running          |-> data_list[7],
     Timetable_clashes            |-> data_list[8],
     Adviser_recommendations      |-> data_list[9]]

\* the summary row of a form that could not be parsed
warning_summary_data_frame(warning_message) ==
    generate_summary_data_frame_from_entries(
        <<0, "Unknown", "Unknown", 0, warning_message, " ", " ", " ", " ">>)

\* the summary row of a parsed student, from the results of the four checkers
student_summary_data_frame(a_student, programme, prerequisites, running, clashes) ==
    generate_summary_data_frame_from_entries(
        <<a_student.student_id, a_student.full_name, a_student.programme_name,
          a_student.current_honours_year,
          programme.missed_requirements,
          prerequisites.missed_prerequisites,
          running.not_running_modules,
          clashes.timetable_clashes,
          merge_list_to_long_string(
              <<programme.adviser_recommendations,
                prerequisites.adviser_recommendations,
                running.adviser_recommendations,
                clashes.adviser_recommendations>>)>>)

\* os.path.join(folder_name, filename)
path_join(folder_name, filename) == folder_name \o "/" \o filename

\* the form files of a folder, in the order of os.listdir
is_form_file(entry) ==
    /\ entry.isfile
    /\ endswith(entry.name, ".xlsx") \/ endswith(entry.name, ".xltx")
    /\ ~startswith(entry.name, "~$")

form_files_of(folder_entries) == SelectSeq(folder_entries, is_form_file)

\* what process_form_file does with the value that parse_excel_form
\* returned: the set of its possible outcomes [raised, summary_data_frame]
summary_of(filename, student_or_warning, catalogue) ==
    LET failed == [raised |-> TRUE, summary_data_frame |-> NoValue]
        warning == warning_message_of(filename, student_or_warning.value)
        programme == find_missing_programme_requirements(student_or_warning, catalogue)
        prerequisites == find_missing_prerequisites(student_or_warning, catalogue)
        running == find_not_running_modules(student_or_warning, catalogue)
    IN  IF student_or_warning.kind = "raised" THEN {failed}
        ELSE IF student_or_warning.kind = "str"
        THEN IF warning.raised THEN {failed}
             ELSE {[raised |-> FALSE,
                    summary_data_frame |-> warning_summary_data_frame(warning.message)]}
        ELSE IF programme.raised \/ prerequisites.raised \/ running.raised
        THEN {failed}
        ELSE {IF clashes.raised THEN failed
              ELSE [raised |-> FALSE,
                    summary_data_frame |->
                        student_summary_data_frame(student_or_warning, programme,
                                                   prerequisites, running, clashes)] :
              clashes \in find_timetable_clashes(student_or_warning, catalogue)}

\* process_form_file as a whole
process_form_file(folder_name, form, tables, catalogue) ==
    UNION {summary_of(path_join(folder_name, form.name), student_or_warning, catalogue) :
              student_or_warning \in {parse_excel_form(form, tables)}}

(***************************************************************************)
(* The module catalogue, the student data tables and the forms of the      *)
(* folder runs.                                                            *)
(***************************************************************************)

catalogue_row(code, semester, year, alternate, prerequisites, antirequisites, timetable) ==
    [Module_code |-> code, Semester |-> semester, Year |-> year,
     Alternate_years |-> alternate, Prerequisites |-> prerequisites,
     Antirequisites |-> antirequisites, Timetable |-> timetable]

Catalogue ==
    <<catalogue_row("MT3501", "S1", "2023/2024", "No", "MT2501", NaN, "9am Mon"),
      catalogue_row("MT3502", "S1", "2023/2024", "No", "MT2502", NaN, "10am Mon"),
      catalogue_row("MT3504", "S1", "2023/2024", "No", "MT2503", NaN, "11am Mon, 11am Thu"),
      catalogue_row("MT3510", "S1", "2023/2024", "No", NaN, NaN, "12noon Mon"),
      catalogue_row("MT3503", "S2", "2023/2024", "No", "MT2502", NaN, "9am Tue"),
      catalogue_row("MT3505", "S2", "2023/2024", "No", "MT2505", NaN, "10am Tue"),
      catalogue_row("MT3506", "S2", "2023/2024", "No", "MT2503", NaN, "11am Tue"),
      catalogue_row("MT3508", "S2", "2023/2024", "No", "MT2501 and (MT2502 or MT2503)", NaN, "12noon Tue"),
      catalogue_row("MT4003", "S1", "2023/2024", "No", "MT3505", NaN, "9am Wed"),
      catalogue_row("MT4113", "S1", "2023/2024", "No", "MT3510", "MT4111", "10am Wed"),
      catalogue_row("MT4111", "S1", "2023/2024", "No", NaN, "MT4113", "9am Wed"),
      catalogue_row("MT4512", "S1", "2022/2023", "Yes", "MT3502", NaN, "11am Wed"),
      catalogue_row("MT4515", "S1", "2023/2024", "No", "MT3502", NaN, "12noon Wed"),
      catalogue_row("MT4004", "S2", "2023/2024", "No", "MT3502", NaN, "9am Thu"),
      catalogue_row("MT4514", "S2", "2023/2024", "No", "MT3503 and MT3504", NaN, "10am Thu"),
      catalogue_row("MT4526", "S2", "2023/2024", "No", "MT3505", NaN, "11am Thu"),
      catalogue_row("MT4609", "S1", "2023/2024", "TBC", NaN, NaN, "1pm Wed"),
      catalogue_row("MT4599", "Full Year", "2023/2024", "No", NaN, NaN, NaN),
      catalogue_row("MT5867", "S2", "2023/2024", "Yes", "MT3505", NaN, "12noon Thu")>>

student_data_row(student_id, module, year, result, programme, given_names, family_name) ==
    [Student_ID |-> student_id, Module_code |-> module, Year |-> year,
     Assessment_result |-> result, Programme_name |-> programme,
     Given_names |-> given_names, Family_name |-> family_name,
     Email |-> given_names \o "@st-andrews.ac.uk"]

\* the rows of a student who took the modules in the year with the result
student_data_rows(student_id, programme, given_names, modules, year, result) ==
    [i \in 1..Len(modules) |->
        student_data_row(student_id, modules[i], year, result, programme,
                         given_names, "Smith")]

SubHonoursModules == <<"MT2501", "MT2502", "MT2503", "MT2505">>

JuniorHonoursModules ==
    <<"MT3501", "MT3502", "MT3504", "MT3510", "MT3503", "MT3505", "MT3506", "MT3508">>

SeniorHonoursModules ==
    <<"MT4003", "MT4113", "MT4512", "MT4515", "MT4004", "MT4514", "MT4526", "MT4599">>

UnrecognisedProgramme == "Master of Science Statistics"

\* the tables of the folder student_data
StudentData ==
    <<student_data_rows(1001, MathematicsBSc, "Ada", <<"MT1002">>, "2021/2022", "P")
      \o student_data_rows(1001, MathematicsBSc, "Ada", SubHonoursModules, "2022/2023", "P")
      \o student_data_rows(1002, MathematicsBSc, "Ben", SubHonoursModules, "2020/2021", "P")
      \o student_data_rows(1002, MathematicsBSc, "Ben", <<"MT2504">>, "2021/2022", "F")
      \o student_data_rows(1002, MathematicsBSc, "Ben", JuniorHonoursModules, "2022/2023", "P"),
      student_data_rows(1003, MathematicsMMath, "Cai", SubHonoursModules, "2021/2022", "P")
      \o student_data_rows(1004, UnrecognisedProgramme, "Dee", SubHonoursModules, "2022/2023", "P")
      \o student_data_rows(1005, MathematicsBSc, "Eli", SubHonoursModules, "2019/2020", "P")
      \o student_data_rows(1005, MathematicsBSc, "Eli", <<"MT4599">>, "2022/2023", "P")
      \o student_data_rows(1007, MathematicsBSc, "Gus", <<"MT1002">>, "2022/2023", "P")
      \o student_data_rows(1006, MathematicsBSc, "Fay", <<"MT2501">>, "2022/2023", "P")
      \o student_data_rows(1006, "Bachelor of Science (Honours) Physics", "Fay", <<"PH2011">>, "2022/2023", "P")>>

StrCell(text) == [type |-> "str", text |-> text, number |-> 0]

IntCell(number) == [type |-> "int", text |-> "", number |-> number]

NoneCell == [type |-> "NoneType", text |-> "", number |-> 0]

StrCells(modules) == [i \in 1..Len(modules) |-> StrCell(modules[i])]

\* column B of the sheet: the sections for three honours years, with the
\* cells under the header of each semester
Sheet(year1_s1, year1_s2, year2_s1, year2_s2) ==
    <<[header |-> "Year 1 of Honours: Semester 1", cells |-> year1_s1],
      [header |-> "Year 1 of Honours: Semester 2", cells |-> year1_s2],
      [header |-> "Year 2 of Honours: Semester 1", cells |-> year2_s1],
      [header |-> "Year 2 of Honours: Semester 2", cells |-> year2_s2],
      [header |-> "Year 3 of Honours: Semester 1", cells |-> <<>>],
      [header |-> "Year 3 of Honours: Semester 2", cells |-> <<>>]>>

Form(name, D5, sheet) == [name |-> name, isfile |-> TRUE, D5 |-> D5, sheet |-> sheet]

Year1S1 == <<IntCell(3501), StrCell("MT3502"), StrCell("MT3504 "), StrCell("MT3510")>>

Year1S2 == StrCells(SubSeq(JuniorHonoursModules, 5, 8))

Year2S1 == StrCells(SubSeq(SeniorHonoursModules, 1, 4))

Year2S2 == <<IntCell(4004), StrCell(" MT4514"), StrCell("MT4526"), StrCell("MT4599")>>

EmptySheet == Sheet(<<>>, <<>>, <<>>, <<>>)

\* the entries of a folder: module choice forms and other entries
Forms ==
    {Form("valid.xlsx", IntCell(1001), Sheet(Year1S1, Year1S2, Year2S1, Year2S2)),
     Form("clash.xlsx", IntCell(1001),
          Sheet(Year1S1, Year1S2,
                <<StrCell("MT4003"), StrCell("MT4111"), StrCell("MT4512"), StrCell("MT4515")>>,
                Year2S2)),
     Form("short.xlsx", IntCell(1001),
          Sheet(Year1S1, SubSeq(Year1S2, 1, 3), Year2S1, Year2S2)),
     Form("twice.xltx", IntCell(1001),
          Sheet(Year1S1, Year1S2, Year2S1,
                <<IntCell(4004), StrCell("MT4003"), StrCell("MT5867"), StrCell("MT4599")>>)),
     Form("swapped.xlsx", IntCell(1001),
          Sheet(<<IntCell(3501), StrCell("MT3502"), StrCell("MT4003"), StrCell("MT3510")>>,
                Year1S2,
                <<StrCell("MT3504"), StrCell("MT4113"), StrCell("MT4512"), StrCell("MT4515")>>,
                Year2S2)),
     Form("flag.xlsx", IntCell(1001),
          Sheet(Year1S1, Year1S2,
                <<StrCell("MT4003"), StrCell("MT4113"), StrCell("MT4609"), StrCell("MT4515")>>,
                Year2S2)),
     Form("final.xlsx", IntCell(1002), Sheet(<<>>, <<>>, Year2S1, Year2S2)),
     Form("mmath.xlsx", IntCell(1003), Sheet(Year1S1, Year1S2, Year2S1, <<>>)),
     Form("blank.xlsx", NoneCell, EmptySheet),
     Form("text.xlsx", StrCell("1001"), Sheet(Year1S1, Year1S2, Year2S1, Year2S2)),
     Form("stranger.xlsx", IntCell(9999), Sheet(Year1S1, Year1S2, Year2S1, Year2S2)),
     Form("statistics.xlsx", IntCell(1004), Sheet(Year1S1, Year1S2, Year2S1, Year2S2)),
     Form("graduate.xlsx", IntCell(1005), EmptySheet),
     Form("early.xlsx", IntCell(1007), Sheet(Year1S1, Year1S2, Year2S1, Year2S2)),
     Form("changed.xlsx", IntCell(1006), Sheet(Year1S1, Year1S2, Year2S1, Year2S2))}

OtherEntries ==
    {[name |-> "~$valid.xlsx", isfile |-> TRUE],
     [name |-> "old.xlsx", isfile |-> FALSE],
     [name |-> "notes.txt", isfile |-> TRUE]}

FolderName == "forms"

MaxEntries == 2

Folders ==
    UNION {[1..n -> Forms \cup OtherEntries] : n \in 0..MaxEntries}

(***************************************************************************)
(* A run of process_folder on a folder, one step for the listing of the    *)
(* folder, one for each call that process_form_file makes on a form, and   *)
(* one for the concatenation of the rows.                                  *)
(***************************************************************************)

Init ==
    /\ module_catalogue = Catalogue
    /\ args \in Folders
    /\ form_files = <<>>
    /\ list_of_data_frames = <<>>
    /\ student = NoStudent
    /\ locals = NoLocals
    /\ pc = "process_folder"
    /\ ret = NoValue

FormLocals(file_index) ==
    [kind |-> "process_form_file", file_index |-> file_index, results |-> <<>>]

\* an exception leaves process_folder
Raise ==
    /\ pc' = "raised"
    /\ UNCHANGED <<list_of_data_frames, locals, ret>>

\* a checker returned its two strings
Returned(result, next) ==
    /\ locals' = [locals EXCEPT !.results = Append(@, result)]
    /\ pc' = next
    /\ UNCHANGED <<list_of_data_frames, ret>>

\* process_form_file returned the row: it is appended and the loop goes on
AppendDataFrame(this_data_frame) ==
    /\ list_of_data_frames' = Append(list_of_data_frames, this_data_frame)
    /\ IF locals.file_index < Len(form_files)
       THEN /\ pc' = "parse_excel_form"
            /\ locals' = FormLocals(locals.file_index + 1)
       ELSE /\ pc' = "concat"
            /\ locals' = NoLocals
    /\ student' = NoStudent
    /\ UNCHANGED ret

ProcessFolder ==
    /\ pc = "process_folder"
    /\ form_files' = form_files_of(args)
    /\ IF Len(form_files') = 0
       THEN pc' = "raised" /\ locals' = locals
       ELSE pc' = "parse_excel_form" /\ locals' = FormLocals(1)
    /\ UNCHANGED <<module_catalogue, args, list_of_data_frames, student, ret>>

ParseExcelForm ==
    /\ pc = "parse_excel_form"
    /\ student' = parse_excel_form(form_files[locals.file_index], StudentData)
    /\ pc' = CASE student'.kind = "raised" -> "raised"
               [] student'.kind = "str" -> "warning"
               [] OTHER -> "find_missing_programme_requirements"
    /\ UNCHANGED <<module_catalogue, args, form_files, list_of_data_frames, locals, ret>>

WarningSummary ==
    /\ pc = "warning"
    /\ LET warning == warning_message_of(
                          path_join(FolderName, form_files[locals.file_index].name),
                          student.value)
       IN  IF warning.raised THEN Raise /\ student' = student
           ELSE AppendDataFrame(warning_summary_data_frame(warning.message))
    /\ UNCHANGED <<module_catalogue, args, form_files>>

FindMissingProgrammeRequirements ==
    /\ pc = "find_missing_programme_requirements"
    /\ LET result == find_missing_programme_requirements(student, module_catalogue)
       IN  IF result.raised THEN Raise
           ELSE Returned(result, "find_missing_prerequisites")
    /\ UNCHANGED <<module_catalogue, args, form_files, student>>

FindMissingPrerequisites ==
    /\ pc = "find_missing_prerequisites"
    /\ \E result \in {find_missing_prerequisites(student, module_catalogue)} :
           IF result.raised THEN Raise
           ELSE Returned(result, "find_not_running_modules")
    /\ UNCHANGED <<module_catalogue, args, form_files, student>>

FindNotRunningModules ==
    /\ pc = "find_not_running_modules"
    /\ LET result == find_not_running_modules(student, module_catalogue)
       IN  IF result.raised THEN Raise
           ELSE Returned(result, "find_timetable_clashes")
    /\ UNCHANGED <<module_catalogue, args, form_files, student>>

FindTimetableClashes ==
    /\ pc = "find_timetable_clashes"
    /\ \E result \in find_timetable_clashes(student, module_catalogue) :
           IF result.raised THEN Raise
           ELSE Returned(result, "summary_data")
    /\ UNCHANGED <<module_catalogue, args, form_files, student>>

SummaryData ==
    /\ pc = "summary_data"
    /\ AppendDataFrame(student_summary_data_frame(student, locals.results[1],
                           locals.results[2], locals.results[3], locals.results[4]))
    /\ UNCHANGED <<module_catalogue, args, form_files>>

Concat ==
    /\ pc = "concat"
    /\ ret' = list_of_data_frames
    /\ pc' = "returned"
    /\ UNCHANGED <<module_catalogue, args, form_files, list_of_data_frames, student, locals>>

Next ==
    \/ ProcessFolder
    \/ ParseExcelForm
    \/ WarningSummary
    \/ FindMissingProgrammeRequirements
    \/ FindMissingPrerequisites
    \/ FindNotRunningModules
    \/ FindTimetableClashes
    \/ SummaryData
    \/ Concat

Spec == Init /\ [][Next]_vars

(***************************************************************************)
(* Properties of the folder run.                                           *)
(***************************************************************************)

\* the rows of all historical record tables
HistoricalRecords == UNION {set_of(StudentData[t]) : t \in 1..Len(StudentData)}

RecordsOfStudent(student_id) ==
    {row \in HistoricalRecords : row.Student_ID = student_id}

ProgrammeNamesOf(student_id) ==
    {row.Programme_name : row \in RecordsOfStudent(student_id)}

RecognisedProgramme(programme_name) ==
    \/ str_contains(programme_name, "Bachelor of Science")
    \/ str_contains(programme_name, "Master in Mathematics")
    \/ str_contains(programme_name, "Master of Arts (Honours)")
    \/ programme_name = "Master in Chemistry (Honours) Chemistry with Mathematics"
    \/ programme_name = "Master in Physics (Honours) Mathematics and Theoretical Physics"

\* the three per-record failures
NoIntegerStudentID(form) == form.D5.type # "int"

StudentIDInNoTable(form) ==
    /\ form.D5.type = "int"
    /\ RecordsOfStudent(form.D5.number) = {}

ProgrammeNotRecognised(form) ==
    /\ form.D5.type = "int"
    /\ Cardinality(ProgrammeNamesOf(form.D5.number)) = 1
    /\ \A programme_name \in ProgrammeNamesOf(form.D5.number) :
           ~RecognisedProgramme(programme_name)

PerRecordFailure(form) ==
    \/ NoIntegerStudentID(form)
    \/ StudentIDInNoTable(form)
    \/ ProgrammeNotRecognised(form)

\* what the 'Could not process ...' message of a failure has to tell
DescribesFailure(message, form) ==
    /\ startswith(message, "Could not process " \o FolderName \o "/" \o form.name)
    /\ NoIntegerStudentID(form) => str_contains(message, "student ID")
    /\ StudentIDInNoTable(form) =>
           str_contains(message, "student ID " \o str(form.D5.number))
    /\ ProgrammeNotRecognised(form) =>
           \A programme_name \in ProgrammeNamesOf(form.D5.number) :
               str_contains(message, "programme")
               /\ str_contains(message, programme_name)

SentinelRecordFor(row, form) ==
    /\ row.Student_ID = 0
    /\ row.Name = "Unknown"
    /\ row.Programme = "Unknown"
    /\ row.Hon_year = 0
    /\ DescribesFailure(row.Unmet_programme_requirements, form)

\* the form file on which process_form_file raised, if it did
RaisedOnForm(i) ==
    pc = "raised" /\ locals.kind = "process_form_file" /\ locals.file_index = i

\* C9: a form without an integer student ID, with a student ID that is in
\* none of the historical record tables, or of a student whose programme
\* name matches none of the recognised programmes makes process_form_file
\* return, and never raise, a sentinel record: student ID 0, name and
\* programme 'Unknown', honours year 0 and a 'Could not process ...' message
\* that describes the failure in the programme-findings slot.
C9_FailureGivesSentinelRecord ==
    \A i \in 1..Len(form_files) :
        PerRecordFailure(form_files[i]) =>
            /\ ~RaisedOnForm(i)
            /\ i <= Len(list_of_data_frames) =>
                   SentinelRecordFor(list_of_data_frames[i], form_files[i])

\* a returned batch that holds the records of a form with an unknown
\* student ID and of a form of a student of an unrecognised programme
C9_Witness ==
    /\ pc = "returned"
    /\ \E i, j \in 1..Len(ret) :
           /\ StudentIDInNoTable(form_files[i])
           /\ ProgrammeNotRecognised(form_files[j])
           /\ ret[i].Student_ID = 0 /\ ret[j].Student_ID = 0

FindingFields ==
    {"Unmet_programme_requirements", "Missing_prerequisites",
     "Modules_not_running", "Timetable_clashes", "Adviser_recommendations"}

\* a non-empty list of messages joined by ', '
JoinedMessages(field) ==
    /\ strip(field) # ""
    /\ ~startswith(field, ", ")
    /\ ~endswith(field, ", ")
    /\ ~str_contains(field, ", , ")

\* C8: in every summary record that process_form_file returns, for a parsed
\* student and for a sentinel alike, each of the five finding fields is
\* 'None' or a non-empty string of finding messages joined by ', '.
C8_FindingFieldsNoneOrJoined ==
    \A i \in 1..Len(list_of_data_frames) : \A field \in FindingFields :
        \/ list_of_data_frames[i][field] = "None"
        \/ JoinedMessages(list_of_data_frames[i][field])

\* the records that process_form_file can return for each form
SummaryRecordsOf ==
    [form \in Forms |->
        {outcome.summary_data_frame :
            outcome \in {o \in process_form_file(FolderName, form, StudentData, Catalogue) :
                            ~o.raised}}]

\* C10: a run of process_folder on a folder with n >= 1 form files ends by
\* returning exactly n rows, the i-th row being the record of the i-th form
\* file in the order of enumeration, whatever forms come before it.
C10_BatchReturnsOneRowPerForm ==
    (pc \in {"returned", "raised"} /\ Len(form_files) >= 1) =>
        /\ pc = "returned"
        /\ Len(ret) = Len(form_files)
        /\ \A i \in 1..Len(form_files) : ret[i] \in SummaryRecordsOf[form_files[i]]

(***************************************************************************)
(* A fully valid record of a Mathematics BSc student, stated on the record *)
(* and the catalogue.                                                      *)
(***************************************************************************)

CatalogueRowOf(module) == CHOOSE row \in set_of(Catalogue) : row.Module_code = module

InCatalogue(module) == \E row \in set_of(Catalogue) : row.Module_code = module

IsProject(module) == module \in {"MT4598", "MT4599"}

\* the planned rows of honours year N, and those of one of its semesters
\* that are not the project
PlannedInYear(s, N) ==
    SelectSeq(s.honours_module_choices,
              LAMBDA row : row.Honours_year = "Year " \o str(N))

TaughtInSemester(s, N, semester) ==
    SelectSeq(PlannedInYear(s, N),
              LAMBDA row : row.Semester = semester /\ ~IsProject(row.Module_code))

\* 8 entries for the year, split 4+4, or 4+3 and the project
FullCreditLoad(s, N) ==
    /\ Len(PlannedInYear(s, N)) = 8
    /\ Len(TaughtInSemester(s, N, "S1")) = 4
    /\ Len(TaughtInSemester(s, N, "S2")) \in {3, 4}

\* the modules of the record that are taken before the planned row
TakenBefore(s, row) ==
    set_of(s.passed_modules)
    \cup {other.Module_code : other \in
            {o \in set_of(s.honours_module_choices) :
                \/ year_number_of(o.Honours_year) < year_number_of(row.Honours_year)
                \/ /\ o.Honours_year = row.Honours_year
                   /\ o.Semester = "S1" /\ row.Semester = "S2"}}

\* every module code that the prerequisites of the row name is taken before
\* it, and the prerequisites are module codes
PrerequisitesSatisfied(s, row) ==
    LET prerequisites == CatalogueRowOf(row.Module_code).Prerequisites
    IN  \/ prerequisites = NaN
        \/ /\ findall_module_codes(prerequisites) # <<>>
           /\ set_of(findall_module_codes(prerequisites)) \subseteq TakenBefore(s, row)

NoAntirequisiteSelected(s, row) ==
    LET antirequisites == CatalogueRowOf(row.Module_code).Antirequisites
    IN  \/ antirequisites = NaN
        \/ set_of(findall_module_codes(antirequisites))
               \cap set_of(s.full_module_list) = {}

\* the module runs in the planned semester of the planned academic year
RunsAsPlanned(row) ==
    LET entry == CatalogueRowOf(row.Module_code)
        first_year == int(SubSeq(entry.Year, 1, 4))
        planned_year == int(SubSeq(row.Academic_year, 1, 4))
    IN  /\ entry.Semester \in {row.Semester, "Full Year"}
        /\ planned_year >= first_year
        /\ entry.Alternate_years \in {"Yes", "No"}
        /\ entry.Alternate_years = "Yes" => (planned_year - first_year) % 2 = 0

\* the timeslots of a timetable entry 'hour day, hour day, ...'
TimeslotsOfEntry(timetable) ==
    LET words == split(replace(timetable, ",", ""))
    IN  IF timetable = NaN THEN {}
        ELSE {words[2 * k - 1] \o " " \o words[2 * k] : k \in 1..(Len(words) \div 2)}

NoSharedTimeslot(s) ==
    \A row, other \in set_of(s.honours_module_choices) :
        (/\ row.Module_code # other.Module_code
         /\ row.Honours_year = other.Honours_year
         /\ row.Semester = other.Semester) =>
            TimeslotsOfEntry(CatalogueRowOf(row.Module_code).Timetable)
            \cap TimeslotsOfEntry(CatalogueRowOf(other.Module_code).Timetable) = {}

\* a 3000 or 4000 level MT module: no permission is needed for it
NoPermissionNeeded(module) ==
    startswith(module, "MT3") \/ startswith(module, "MT4")

ProgrammeRulesMet(s) ==
    LET all == set_of(s.full_module_list)
        honours == s.all_honours_modules
    IN  /\ Cardinality(all) = Len(s.full_module_list)
        /\ Cardinality(all \cap set_of(list_of_MT350X_modules)) >= 4
        /\ all \cap set_of(list_of_computing_modules) # {}
        /\ Cardinality({module \in all : IsProject(module)}) = 1
        /\ \E row \in set_of(s.honours_module_choices) :
               IsProject(row.Module_code) /\ row.Honours_year = "Year 2"
        /\ all \cap set_of(unallowed_modules) = {}
        /\ Len(SelectSeq(honours, LAMBDA module : ~startswith(module, "MT"))) <= 2
        /\ Len(SelectSeq(honours, LAMBDA module :
                   startswith(module, "MT4") \/ startswith(module, "MT5"))) >= 6

FullyValidRecord(s) ==
    /\ s.programme_name = MathematicsBSc
    /\ s.current_honours_year \in 1..s.expected_honours_years
    /\ \A N \in s.current_honours_year..s.expected_honours_years : FullCreditLoad(s, N)
    /\ \A row \in set_of(s.honours_module_choices) :
           InCatalogue(row.Module_code) /\ NoPermissionNeeded(row.Module_code)
    /\ ProgrammeRulesMet(s)
    /\ \A row \in set_of(s.honours_module_choices) :
           /\ PrerequisitesSatisfied(s, row)
           /\ NoAntirequisiteSelected(s, row)
           /\ RunsAsPlanned(row)
    /\ NoSharedTimeslot(s)

\* process_form_file has just returned the record of form file i
JustReturned(i) ==
    /\ pc \in {"parse_excel_form", "concat"}
    /\ i = Len(list_of_data_frames)
    /\ i >= 1

\* C1: for every Mathematics BSc student whose record is fully valid,
\* process_form_file yields 'None' in all five categories: programme
\* findings, prerequisite findings, scheduling findings, timetable findings
\* and adviser recommendations.
C1_ValidRecordYieldsNoneEverywhere ==
    \A i \in 1..Len(list_of_data_frames) :
        (/\ JustReturned(i)
         /\ list_of_data_frames[i].Programme = MathematicsBSc
         /\ FullyValidRecord(parse_excel_form(form_files[i], StudentData))) =>
            \A field \in FindingFields : list_of_data_frames[i][field] = "None"

(***************************************************************************)
(* Programmes without a rule set.                                          *)
(***************************************************************************)

NoProgrammeRequirements == "No programme requirements available"

\* the planned MT modules that are no module of the catalogue
UnknownPlannedModules(a_student) ==
    {module \in set_of(a_student.planned_honours_modules) :
        /\ startswith(module, "MT")
        /\ \A i \in 1..Len(module_catalogue) :
               module_catalogue[i].Module_code # module}

\* a finding of one of the two sanity checks on the module selection
IsSanityFinding(finding, a_student) ==
    \/ startswith(finding, "Student selected the following modules twice: ")
    \/ \E module \in UnknownPlannedModules(a_student) :
           finding = "Student is planning to take " \o module
                         \o " (which does not exist)"

\* C11 as claimed: for a student of a programme other than the Mathematics
\* BSc the programme findings are exactly 'No programme requirements
\* available', whatever modules the student has passed or planned.
C11_OtherProgrammeYieldsOnlyTheStub ==
    (pc = "programme_done" /\ student.programme_name # MathematicsBSc) =>
        /\ ~ret.raised
        /\ ret.missed_requirements = NoProgrammeRequirements

\* C11 as the code has it: for a student of a programme other than the
\* Mathematics BSc the call returns, gives no adviser recommendation, and
\* the programme findings are the findings of the two sanity checks on the
\* module selection followed by 'No programme requirements available',
\* joined by ', '; they are exactly that string when no module is selected
\* twice and every planned MT module is in the catalogue.
C11_OtherProgrammeYieldsSanityFindingsAndStub ==
    (pc = "programme_done" /\ student.programme_name # MathematicsBSc) =>
        LET findings == ret.list_of_missed_requirements
        IN  /\ ~ret.raised
            /\ ret.adviser_recommendations = "None"
            /\ Len(findings) >= 1
            /\ findings[Len(findings)] = NoProgrammeRequirements
            /\ \A i \in 1..(Len(findings) - 1) : IsSanityFinding(findings[i], student)
            /\ ret.missed_requirements = JoinedByComma(findings)
            /\ (Len(findings) = 1) <=>
                   (DuplicatedModules(student) = {} /\ UnknownPlannedModules(student) = {})
            /\ (DuplicatedModules(student) = {} /\ UnknownPlannedModules(student) = {})
                   => ret.missed_requirements = NoProgrammeRequirements

\* C11 witness: an MMath student who has passed MT3501 and plans MT4599
\* only gets the one finding
C11_Witness ==
    /\ pc = "programme_done"
    /\ student.programme_name = MathematicsMMath
    /\ student.passed_modules = <<"MT3501">>
    /\ student.planned_honours_modules = <<"MT4599">>
    /\ ret.missed_requirements = NoProgrammeRequirements

(***************************************************************************)
(* The four checkers called one after the other on one student.  The       *)
(* student and the catalogue are the objects that the calls share; every   *)
(* call leaves behind what its assignments leave behind.                   *)
(***************************************************************************)

MaxCalls == 4

\* student.passed_modules after get_missing_prerequisites_for_module:
\* previously_taken_modules is a copy of it, and the appends go to the copy
passed_modules_after_without_copy(module, a_student) ==
    taken_modules(module, a_student).previously_taken_modules

passed_modules_after(module, a_student) ==
    a_student.passed_modules

\* the student after get_missing_prerequisites_for_module
student_after_module(a_student, module) ==
    [a_student EXCEPT !.passed_modules = passed_modules_after(module, a_student)]

\* the student after the first n iterations of the loop of
\* find_missing_prerequisites
RECURSIVE student_after_find_missing_prerequisites(_, _)
student_after_find_missing_prerequisites(a_student, n) ==
    IF n = 0 THEN a_student
    ELSE student_after_module(
             student_after_find_missing_prerequisites(a_student, n - 1),
             a_student.planned_honours_modules[n])

\* the rows that the plans of the students are taken from
CheckerRows ==
    <<honours_module_row(1, 1, PrereqModule), honours_module_row(1, 2, "MT1001"),
      honours_module_row(2, 1, "MT1002"), honours_module_row(2, 2, PrereqModule)>>

\* the plans: the rows of CheckerRows at the chosen places, in form order
CheckerPlans ==
    {SelectSeq([i \in 1..Len(CheckerRows) |-> [place |-> i, row |-> CheckerRows[i]]],
               LAMBDA entry : entry.place \in places) :
         places \in (SUBSET (1..Len(CheckerRows))) \ {{}}}

CheckerPrerequisites == {"MT1001", "MT1001 or MT1002", "co-requisite MT1001 and MT1002"}

CheckersInit ==
    /\ \E prerequisites \in CheckerPrerequisites :
           module_catalogue = PrereqCatalogue(prerequisites)
    /\ form_files = <<>>
    /\ list_of_data_frames = <<>>
    /\ \E passed \in {<<>>, <<"MT1002">>}, plan \in CheckerPlans :
           student = Student(190000005, "E Student", "es5@example.org",
                             MathematicsBSc, 3, 2, 1, passed, <<>>,
                             [i \in 1..Len(plan) |-> plan[i].row])
    /\ locals = [kind |-> "calls", calls |-> <<>>]
    /\ pc = "checkers"
    /\ args = NoValue
    /\ ret = NoValue

\* one call has returned its two strings, or raised
CheckerReturned(checker, raised, findings, adviser_recommendations) ==
    /\ pc' = IF raised THEN "raised" ELSE "checkers"
    /\ ret' = IF raised THEN ret
              ELSE [findings |-> findings,
                    adviser_recommendations |-> adviser_recommendations]
    /\ locals' = IF raised THEN locals
                 ELSE [locals EXCEPT !.calls = Append(@,
                          [checker |-> checker, findings |-> findings,
                           adviser_recommendations |-> adviser_recommendations])]
    /\ UNCHANGED <<form_files, list_of_data_frames, args>>

CheckerGuard ==
    /\ pc = "checkers"
    /\ Len(locals.calls) < MaxCalls

CallFindMissingProgrammeRequirements ==
    /\ CheckerGuard
    /\ \E result \in {find_missing_programme_requirements(student, module_catalogue)} :
           CheckerReturned("find_missing_programme_requirements", result.raised,
                           result.missed_requirements, result.adviser_recommendations)
    /\ UNCHANGED <<student, module_catalogue>>

CallFindMissingPrerequisites ==
    /\ CheckerGuard
    /\ \E result \in {find_missing_prerequisites(student, module_catalogue)} :
           CheckerReturned("find_missing_prerequisites", result.raised,
                           result.missed_prerequisites, result.adviser_recommendations)
    /\ student' = student_after_find_missing_prerequisites(
                      student, Len(student.planned_honours_modules))
    /\ UNCHANGED module_catalogue

CallFindNotRunningModules ==
    /\ CheckerGuard
    /\ \E result \in {find_not_running_modules(student, module_catalogue)} :
           CheckerReturned("find_not_running_modules", result.raised,
                           result.not_running_modules, result.adviser_recommendations)
    /\ UNCHANGED <<student, module_catalogue>>

CallFindTimetableClashes ==
    /\ CheckerGuard
    /\ \E result \in find_timetable_clashes(student, module_catalogue) :
           CheckerReturned("find_timetable_clashes", result.raised,
                           result.timetable_clashes, result.adviser_recommendations)
    /\ UNCHANGED <<student, module_catalogue>>

CheckersNext ==
    \/ CallFindMissingProgrammeRequirements
    \/ CallFindMissingPrerequisites
    \/ CallFindNotRunningModules
    \/ CallFindTimetableClashes

SpecCheckers == CheckersInit /\ [][CheckersNext]_vars

\* the i-th and the next call are calls of find_missing_prerequisites
CalledTwiceAt(i) ==
    /\ locals.kind = "calls"
    /\ i + 1 <= Len(locals.calls)
    /\ locals.calls[i].checker = "find_missing_prerequisites"
    /\ locals.calls[i + 1].checker = "find_missing_prerequisites"

\* C12: two calls of find_missing_prerequisites in succession on the same
\* student and catalogue return the same prerequisite findings and the same
\* adviser recommendations.
C12_PrerequisiteEvaluatorIdempotent ==
    \A i \in 1..MaxCalls :
        CalledTwiceAt(i) =>
            /\ locals.calls[i + 1].findings = locals.calls[i].findings
            /\ locals.calls[i + 1].adviser_recommendations
                   = locals.calls[i].adviser_recommendations

\* C12 witness: the student plans MT3502, which needs MT1001, before MT1001
\* and a module of the second year; both calls report the missing
\* prerequisite
C12_Witness ==
    /\ CalledTwiceAt(1)
    /\ module_codes_of(student.honours_module_choices) = <<"MT3502", "MT1001", "MT1002">>
    /\ locals.calls[1].findings = "Student is missing prerequisite MT1001 for module MT3502"
    /\ locals.calls[2].findings = "Student is missing prerequisite MT1001 for module MT3502"

\* C13: no call of a checker changes the catalogue, the passed modules, the
\* passed honours modules or the planned module choices of the student.
C13_CheckersAreReadOnly ==
    [][/\ module_catalogue' = module_catalogue
       /\ student'.passed_modules = student.passed_modules
       /\ student'.passed_honours_modules = student.passed_honours_modules
       /\ student'.honours_module_choices = student.honours_module_choices]_vars

\* C13 witness: each of the four checkers has been called on the student
\* who plans modules of both years
C13_Witness ==
    /\ locals.kind = "calls"
    /\ \A checker \in {"find_missing_programme_requirements", "find_missing_prerequisites",
                       "find_not_running_modules", "find_timetable_clashes"} :
           \E i \in 1..Len(locals.calls) : locals.calls[i].checker = checker
    /\ Len(student.honours_module_choices) = 4

(***************************************************************************)
(* Prerequisite expressions of the general case.  An expression is a tree  *)
(* <<kind, left, right>>; the catalogue holds the string it is written as. *)
(***************************************************************************)

Code(module_code) == <<"code", module_code, FALSE>>

CoRequisite(module_code) == <<"code", module_code, TRUE>>

And(left, right) == <<"and", left, right>>

Or(left, right) == <<"or", left, right>>

Parenthesised(expression) == <<"()", expression, <<>>>>

\* the expression as the catalogue writes it
RECURSIVE Written(_)
Written(expression) ==
    CASE expression[1] = "code" ->
             (IF expression[3] THEN "co-requisite " ELSE "") \o expression[2]
      [] expression[1] = "and" ->
             Written(expression[2]) \o " and " \o Written(expression[3])
      [] expression[1] = "or" ->
             Written(expression[2]) \o " or " \o Written(expression[3])
      [] OTHER -> "(" \o Written(expression[2]) \o ")"

\* the value of the expression: a code with the qualifier is satisfied by
\* a previously or concurrently taken module, any other code by a
\* previously taken module only
RECURSIVE Satisfied(_, _, _)
Satisfied(expression, previously, concurrently) ==
    CASE expression[1] = "code" ->
             \/ expression[2] \in previously
             \/ expression[3] /\ expression[2] \in concurrently
      [] expression[1] = "and" ->
             /\ Satisfied(expression[2], previously, concurrently)
             /\ Satisfied(expression[3], previously, concurrently)
      [] expression[1] = "or" ->
             \/ Satisfied(expression[2], previously, concurrently)
             \/ Satisfied(expression[3], previously, concurrently)
      [] OTHER -> Satisfied(expression[2], previously, concurrently)

\* expressions over MT1001, MT1002 and MT1003 (which no student takes); a
\* tree is written so that Python's precedence reads it back as it is
GeneralExpressions ==
    <<And(Code("MT1001"), Code("MT1002")),
      Or(Code("MT1001"), Code("MT1002")),
      CoRequisite("MT1001"),
      And(CoRequisite("MT1001"), Code("MT1002")),
      And(Code("MT1001"), CoRequisite("MT1002")),
      And(And(Code("MT1001"), Code("MT1002")), Code("MT1003")),
      Or(Code("MT1003"), And(Code("MT1001"), CoRequisite("MT1002"))),
      And(Parenthesised(Or(Code("MT1001"), Code("MT1002"))), Code("MT1002")),
      And(Code("MT1001"), Parenthesised(Or(CoRequisite("MT1002"), Code("MT1003"))))>>

ExpressionsInit ==
    /\ \E i \in 1..Len(GeneralExpressions) :
           module_catalogue = PrereqCatalogue(Written(GeneralExpressions[i]))
    /\ form_files = <<>>
    /\ list_of_data_frames = <<>>
    /\ \E passed \in PassedLists, first_year \in 1..2 :
       \E rows \in PlannedRowLists(PrereqCodes \cup {PrereqModule}, first_year) :
           student = Student(190000006, "F Student", "fs6@example.org",
                             MathematicsBSc, first_year + 2, 2, first_year,
                             passed, <<>>, honours_module_table(rows))
    /\ locals = NoLocals
    /\ pc = "prerequisites_call"
    /\ args = PrereqModule
    /\ PrereqModule \in set_of(student.planned_honours_modules)
    /\ ret = NoValue

SpecExpressions == ExpressionsInit /\ [][PrereqNext]_vars

\* the expression that the catalogue holds for the module
CatalogueExpression ==
    GeneralExpressions[CHOOSE i \in 1..Len(GeneralExpressions) :
                           Written(GeneralExpressions[i]) = CataloguePrerequisites]

\* concurrently-taken modules of a planned module: the other modules
\* planned for its honours year and semester
ConcurrentlyTaken(a_student, module) ==
    LET choices == a_student.honours_module_choices
    IN  {choices[i].Module_code : i \in
            {j \in 1..Len(choices) :
                /\ year_number_of(choices[j].Honours_year) = PlannedYear(a_student, module)
                /\ choices[j].Semester = PlannedSemester(a_student, module)
                /\ choices[j].Module_code # module}}

ExpressionSatisfied ==
    Satisfied(CatalogueExpression, PreviouslyTaken(student, args),
              ConcurrentlyTaken(student, args))

\* C14: for a prerequisite expression of module codes joined by 'and' and
\* 'or', with optional parentheses and 'co-requisite' qualifiers, the call
\* returns, and a missing-prerequisite finding is emitted if and only if
\* the expression is false, a qualified code being satisfied by a
\* previously or concurrently taken module and any other code by a
\* previously taken module only.
C14_GeneralExpressionFindingIffFalse ==
    pc = "prerequisites_done" =>
        /\ ~ret.raised
        /\ MissingPrerequisiteEmitted <=> ~ExpressionSatisfied

\* the expressions of more than three words without a qualifier inside
\* parentheses are evaluated as C14 says
C14_HoldsOutsideTheThreeWordBranch ==
    (/\ pc = "prerequisites_done"
     /\ Len(split(CataloguePrerequisites)) # 3
     /\ ~str_contains(CataloguePrerequisites, "(co-requisite")) =>
        /\ ~ret.raised
        /\ MissingPrerequisiteEmitted <=> ~ExpressionSatisfied

(***************************************************************************)
(* Timetable entries with odd and even weeks.                              *)
(***************************************************************************)

\* the entries of MT4003, of MT4004 and of MT4005
WeekTimetables ==
    <<{"10am Mon (odd weeks)", "10am Mon (odd weeks), Tue, Wed"},
      {"10am Mon (even weeks)", "10am Mon (even weeks), Thu, Fri", "10am Mon"},
      {NaN, "10am Mon"}>>

WeeksInit ==
    /\ \E first \in WeekTimetables[1], second \in WeekTimetables[2],
          third \in WeekTimetables[3] :
           module_catalogue = ClashCatalogue(first, second, third)
    /\ form_files = <<>>
    /\ list_of_data_frames = <<>>
    /\ \E first_year \in 1..2 :
       \E rows \in PlannedRowLists(ClashModules, first_year) :
           student = Student(190000007, "G Student", "gs7@example.org",
                             MathematicsBSc, first_year + 2, 2, first_year,
                             <<>>, <<>>, honours_module_table(rows))
    /\ locals = NoLocals
    /\ pc = "clashes_call"
    /\ args = NoValue
    /\ ret = NoValue

SpecWeeks == WeeksInit /\ [][ClashNext]_vars

\* MT4003 occupies 10am Mon in odd weeks only and MT4004 in even weeks only
OddAndEvenWeeks ==
    /\ startswith(catalogue_entry(module_catalogue, "MT4003", "Timetable"),
                  "10am Mon (odd weeks)")
    /\ startswith(catalogue_entry(module_catalogue, "MT4004", "Timetable"),
                  "10am Mon (even weeks)")

\* a clash message of the group names both modules
ClashReported(group, first, second) ==
    \E message \in MessagesOfGroup(group) :
        str_contains(message, first) /\ str_contains(message, second)

\* C15: two modules planned for the same honours year and semester that
\* occupy 10am Mon, one in odd weeks only ('10am Mon (odd weeks)') and the
\* other in even weeks only ('10am Mon (even weeks)'), are reported as
\* clashing by find_timetable_clashes.
C15_OddAndEvenWeeksReportedAsClashing ==
    (pc = "clashes_done" /\ OddAndEvenWeeks) =>
        \A i \in 1..Len(semester_groups(student)) :
            {"MT4003", "MT4004"} \subseteq ModulesOfGroup(semester_groups(student)[i])
                => /\ ~ret.raised
                   /\ ClashReported(semester_groups(student)[i], "MT4003", "MT4004")

\* what the code does instead: a call that returns never reports MT4003 and
\* MT4004 as clashing, whether MT4004 has '10am Mon (even weeks)' or
\* '10am Mon'
C15_QualifiedSlotsNeverClash ==
    (pc = "clashes_done" /\ ~ret.raised) =>
        \A i \in 1..Len(semester_groups(student)) :
            ~ClashReported(semester_groups(student)[i], "MT4003", "MT4004")

(***************************************************************************)
(* Direct calls of find_clashing_timeslots_and_modules on the timeslot     *)
(* dictionary of the modules of one honours year and semester.             *)
(***************************************************************************)

\* the lists of distinct modules of one semester, in the order of the form
SemesterModuleLists ==
    {modules \in UNION {[1..n -> ClashModules] : n \in 1..Cardinality(ClashModules)} :
        \A i, j \in 1..Len(modules) : i # j => modules[i] # modules[j]}

ClashingInit ==
    /\ \E first \in TimetableStrings, second \in TimetableStrings,
          third \in TimetableStrings :
           module_catalogue = ClashCatalogue(first, second, third)
    /\ form_files = <<>>
    /\ list_of_data_frames = <<>>
    /\ student = NoStudent
    /\ locals = NoLocals
    /\ pc = "clashing_call"
    /\ \E semester_modules \in SemesterModuleLists :
           args = timeslot_dictionary_of(semester_modules, module_catalogue)
    /\ ret = NoValue

ClashingCall ==
    /\ pc = "clashing_call"
    /\ ret' \in find_clashing_timeslots_and_modules(args, "Year 1", "S1")
    /\ pc' = "clashing_done"
    /\ UNCHANGED <<module_catalogue, form_files, list_of_data_frames, student,
                   locals, args>>

ClashingNext == ClashingCall

SpecClashing == ClashingInit /\ [][ClashingNext]_vars

\* the timeslots of a module of the dictionary
SlotsOf(module) == set_of(dict_value(args, module))

\* the modules of the dictionary
KeysOf == {args[i].key : i \in 1..Len(args)}

\* the sets of two or more modules that are all the modules of some timeslot
ClashingSets ==
    {modules \in SUBSET KeysOf :
        /\ Cardinality(modules) >= 2
        /\ \E timeslot \in UNION {SlotsOf(module) : module \in KeysOf} :
               modules = {module \in KeysOf : timeslot \in SlotsOf(module)}}

\* the timeslots that all modules of the set have
CommonSlots(modules) ==
    {timeslot \in UNION {SlotsOf(module) : module \in modules} :
        \A module \in modules : timeslot \in SlotsOf(module)}

\* the message names the modules of the set and all their common timeslots,
\* each once and nothing else, in some order
IsMessageOf(message, modules) ==
    \E module_order \in IterationOrders(modules),
       timeslot_order \in IterationOrders(CommonSlots(modules)) :
        message = "Clash for Year 1 S1 between modules "
                      \o joined_by_and(module_order) \o " at "
                      \o joined_by_and(timeslot_order)

\* C16: find_clashing_timeslots_and_modules returns exactly one message for
\* every set of modules that share a timeslot (all the modules of that
\* timeslot) and no other message; the message lists every timeslot common
\* to all modules of the set, so two modules that clash on two timeslots
\* are reported once.
C16_OneMessagePerSetOfClashingModules ==
    pc = "clashing_done" =>
        /\ Len(ret) = Cardinality(ClashingSets)
        /\ \A modules \in ClashingSets :
               Cardinality({i \in 1..Len(ret) : IsMessageOf(ret[i], modules)}) = 1
        /\ \A i \in 1..Len(ret) :
               \E modules \in ClashingSets : IsMessageOf(ret[i], modules)

\* C16 witness: MT4003 and MT4004 clash at 10am Mon and at 2pm Thu, MT4005
\* is at 10am Mon too; there is one message for the two and one for the
\* three modules
C16_Witness ==
    /\ pc = "clashing_done"
    /\ KeysOf = ClashModules
    /\ SlotsOf("MT4003") = {"10am Mon", "2pm Thu"}
    /\ SlotsOf("MT4004") = {"10am Mon", "2pm Thu"}
    /\ SlotsOf("MT4005") = {"10am Mon"}
    /\ Len(ret) = 2
    /\ \E i \in 1..2 : ret[i] \in
           {"Clash for Year 1 S1 between modules MT4003 and MT4004 at 10am Mon and 2pm Thu",
            "Clash for Year 1 S1 between modules MT4003 and MT4004 at 2pm Thu and 10am Mon",
            "Clash for Year 1 S1 between modules MT4004 and MT4003 at 10am Mon and 2pm Thu",
            "Clash for Year 1 S1 between modules MT4004 and MT4003 at 2pm Thu and 10am Mon"}

(***************************************************************************)
(* Direct calls of get_timeslots_for_module on timetable entries that are  *)
(* lists of slots.                                                         *)
(***************************************************************************)

MaxSlots == 3

Slot(time, day, weeks) == [time |-> time, day |-> day, weeks |-> weeks]

TimetableSlots ==
    {Slot("10am", "Mon", ""), Slot("11am", "Tue", ""),
     Slot("10am", "Wed", "(odd weeks)"), Slot("10am", "Fri", "(odd weeks)"),
     Slot("2pm", "Thu", "(even weeks)")}

\* '<time> <day>', followed by the qualifier when the slot has one
WrittenSlot(slot) ==
    slot.time \o " " \o slot.day
        \o (IF slot.weeks = "" THEN "" ELSE " " \o slot.weeks)

\* the timetable entry of the slots: the slots separated by ', '
WrittenTimetable(slots) == JoinedByComma([i \in 1..Len(slots) |-> WrittenSlot(slots[i])])

SlotLists == UNION {[1..n -> TimetableSlots] : n \in 1..MaxSlots}

TimeslotsInit ==
    /\ \E slots \in SlotLists :
           module_catalogue = ClashCatalogue(WrittenTimetable(slots), NaN, NaN)
    /\ form_files = <<>>
    /\ list_of_data_frames = <<>>
    /\ student = NoStudent
    /\ locals = NoLocals
    /\ pc = "timeslots_call"
    /\ args = "MT4003"
    /\ ret = NoValue

TimeslotsCall ==
    /\ pc = "timeslots_call"
    /\ ret' = get_timeslots_for_module(args, module_catalogue)
    /\ pc' = "timeslots_done"
    /\ UNCHANGED <<module_catalogue, form_files, list_of_data_frames, student,
                   locals, args>>

TimeslotsNext == TimeslotsCall

SpecTimeslots == TimeslotsInit /\ [][TimeslotsNext]_vars

\* the slots that the timetable entry of the module was written from
SlotsOfEntry ==
    CHOOSE slots \in SlotLists :
        WrittenTimetable(slots) = catalogue_entry(module_catalogue, args, "Timetable")

\* C17: for a timetable entry that is a list of slots separated by commas,
\* each '<time> <day>' with an optional '(odd weeks)' or '(even weeks)',
\* get_timeslots_for_module returns without an error one token for every
\* slot: the time and day of the slot and its qualifier when it has one,
\* without a comma.
C17_OneTokenPerSlot ==
    pc = "timeslots_done" =>
        /\ ~ret.raised
        /\ ret.timeslots = [i \in 1..Len(SlotsOfEntry) |-> WrittenSlot(SlotsOfEntry[i])]

\* the entries without a qualifier, and the entry that the code treats
\* apart, are parsed as C17 says
C17_HoldsWithoutQualifiers ==
    (/\ pc = "timeslots_done"
     /\ \/ \A i \in 1..Len(SlotsOfEntry) : SlotsOfEntry[i].weeks = ""
        \/ SlotsOfEntry = <<Slot("10am", "Wed", "(odd weeks)"),
                            Slot("10am", "Fri", "(odd weeks)")>>) =>
        /\ ~ret.raised
        /\ ret.timeslots = [i \in 1..Len(SlotsOfEntry) |-> WrittenSlot(SlotsOfEntry[i])]

(***************************************************************************)
(* The advisories of check_for_120_credits_each_year about the split of    *)
(* the modules over the semesters.                                         *)
(***************************************************************************)

\* the number of planned entries of a semester of honours year N, the
\* excluded code not counted
SemesterEntries(a_student, year_number, semester, excluded) ==
    Cardinality({i \in 1..Len(a_student.honours_module_choices) :
        /\ a_student.honours_module_choices[i].Honours_year = "Year " \o str(year_number)
        /\ a_student.honours_module_choices[i].Semester = semester
        /\ a_student.honours_module_choices[i].Module_code # excluded})

AdvisoryEmitted(advisory) == in_list(advisory, ret.list_of_adviser_recommendations)

\* C18: for a Mathematics BSc student who still has Year 1 to plan, 'Not
\* taking even credit split in Year 1' is emitted if and only if Semester 1
\* or Semester 2 of Year 1 does not have exactly 4 planned entries,
\* whatever is planned for the other honours year.
C18_EvenSplitAdvisoryIffYearOneUneven ==
    (pc = "credits_done" /\ student.current_honours_year = 1) =>
        (AdvisoryEmitted("Not taking even credit split in Year 1")
            <=> \/ SemesterEntries(student, 1, "S1", "") # 4
                \/ SemesterEntries(student, 1, "S2", "") # 4)

\* the advisory is as C18 says when Year 1 is the only honours year with
\* planned entries
C18_HoldsWhenOnlyYearOneIsPlanned ==
    (/\ pc = "credits_done"
     /\ student.current_honours_year = 1
     /\ EntriesOfYear(student, 1) > 0
     /\ EntriesOfYear(student, 2) = 0) =>
        (AdvisoryEmitted("Not taking even credit split in Year 1")
            <=> \/ SemesterEntries(student, 1, "S1", "") # 4
                \/ SemesterEntries(student, 1, "S2", "") # 4)

\* C19: for a student of a programme of two honours years, the advisory
\* about the course load of the final honours year is emitted if and only
\* if Year 2, the project MT4599 not counted, does not have exactly 4
\* entries in Semester 1 and 3 entries in Semester 2.
C19_FinalYearAdvisoryIffNotFourAndThree ==
    (pc = "credits_done" /\ student.expected_honours_years = 2) =>
        (AdvisoryEmitted("Student is taking a high course load in second semester of final honours year")
            <=> ~(/\ SemesterEntries(student, 2, "S1", "MT4599") = 4
                  /\ SemesterEntries(student, 2, "S2", "MT4599") = 3))

\* what the code does instead: the advisory is emitted whenever Year 2 has
\* a planned entry
C19_EmittedWheneverYearTwoIsPlanned ==
    (pc = "credits_done" /\ student.expected_honours_years = 2) =>
        (AdvisoryEmitted("Student is taking a high course load in second semester of final honours year")
            <=> EntriesOfYear(student, 2) > 0)

(***************************************************************************)
(* The final year project rule of the Mathematics BSc                      *)
(***************************************************************************)

\* the codes of {MT4598, MT4599} among the passed and planned modules
ProjectCodesTaken(a_student) ==
    set_of(a_student.full_module_list) \cap set_of(list_of_project_codes)

\* the years in which the form plans the module
PlannedYearsOf(a_student, module) ==
    {a_student.honours_module_choices[i].Honours_year :
        i \in {j \in 1..Len(a_student.honours_module_choices) :
                  a_student.honours_module_choices[j].Module_code = module}}

NotAnAllowedProject == "Student is not taking an allowed final year project"

NotInFinalYear == "Student is not taking their final year project in their final year."

\* C20: for a Mathematics BSc student 'Student is not taking an allowed
\* final year project' is emitted if and only if the number of distinct
\* codes of {MT4598, MT4599} among the passed and planned modules is not 1;
\* when it is 1, 'Student is not taking their final year project in their
\* final year.' is emitted if and only if that project is not planned in
\* Year 2.
C20_FinalYearProjectRule ==
    (pc = "programme_done" /\ student.programme_name = MathematicsBSc) =>
        /\ in_list(NotAnAllowedProject, ret.list_of_missed_requirements)
               <=> Cardinality(ProjectCodesTaken(student)) # 1
        /\ Cardinality(ProjectCodesTaken(student)) = 1 =>
               \A project \in ProjectCodesTaken(student) :
                   in_list(NotInFinalYear, ret.list_of_missed_requirements)
                       <=> "Year 2" \notin PlannedYearsOf(student, project)

\* the rule of C20 for the calls that return and the forms that plan the
\* project in at most one honours year
C20_HoldsWhenTheProjectIsPlannedInOneYear ==
    (/\ pc = "programme_done"
     /\ student.programme_name = MathematicsBSc
     /\ ~ret.raised
     /\ \A project \in ProjectCodesTaken(student) :
            Cardinality(PlannedYearsOf(student, project)) <= 1) =>
        /\ in_list(NotAnAllowedProject, ret.list_of_missed_requirements)
               <=> Cardinality(ProjectCodesTaken(student)) # 1
        /\ Cardinality(ProjectCodesTaken(student)) = 1 =>
               \A project \in ProjectCodesTaken(student) :
                   in_list(NotInFinalYear, ret.list_of_missed_requirements)
                       <=> "Year 2" \notin PlannedYearsOf(student, project)

(***************************************************************************)
(* The rules of find_missing_programme_requirements are evaluated to the   *)
(* end                                                                     *)
(***************************************************************************)

\* C21: for every Mathematics BSc student, whatever the passed modules and
\* the planned module choices, find_missing_programme_requirements
\* completes without raising and returns the findings of all its rules.
C21_ProgrammeCheckerNeverRaises ==
    (pc = "programme_done" /\ student.programme_name = MathematicsBSc) =>
        /\ ~ret.raised
        /\ ret.missed_requirements # NaN
        /\ ret.adviser_recommendations # NaN

\* the calls for the Mathematics BSc raise exactly when one project code is
\* among the passed and planned modules and the form does not enter it
C21_RaisesIffTheProjectIsNotOnTheForm ==
    (pc = "programme_done" /\ student.programme_name = MathematicsBSc) =>
        (ret.raised <=>
            /\ Cardinality(ProjectCodesTaken(student)) = 1
            /\ \A project \in ProjectCodesTaken(student) :
                   PlannedYearsOf(student, project) = {})

(***************************************************************************)
(* Direct calls of get_missing_prerequisites_for_module on forms that plan *)
(* modules the catalogue does not have.                                    *)
(***************************************************************************)

\* the planned codes: MT1001 is in the catalogue, the others are not
UnknownCodes == {"MT1001", "MT4999", "MT5867"}

UnknownPassedLists ==
    {<<>>, <<"MT1001">>, <<"MT3505">>, <<"MT3505", "MT4003">>}

UnknownInit ==
    /\ \E prerequisites \in {NaN, "MT1001"} :
           module_catalogue = PrereqCatalogue(prerequisites)
    /\ form_files = <<>>
    /\ list_of_data_frames = <<>>
    /\ \E passed \in UnknownPassedLists, first_year \in 1..2 :
       \E rows \in PlannedRowLists(UnknownCodes, first_year) :
           student = Student(190000005, "E Student", "es5@example.org",
                             MathematicsBSc, first_year + 2, 2, first_year,
                             passed, <<>>, honours_module_table(rows))
    /\ locals = NoLocals
    /\ pc = "prerequisites_call"
    /\ args \in set_of(student.planned_honours_modules)
    /\ ret = NoValue

SpecUnknown == UnknownInit /\ [][PrereqNext]_vars

\* the module is absent from the catalogue
AbsentFromCatalogue(catalogue, module) ==
    \A i \in 1..Len(catalogue) : catalogue[i].Module_code # module

\* C22: for every planned module code that is absent from the catalogue,
\* get_missing_prerequisites_for_module returns 'None' for the missed
\* prerequisites and 'None' for the adviser recommendations, whatever the
\* passed and planned modules of the student.
C22_UnknownModuleYieldsNoFinding ==
    (pc = "prerequisites_done" /\ AbsentFromCatalogue(module_catalogue, args)) =>
        /\ ~ret.raised
        /\ ret.missed_prerequisites = "None"
        /\ ret.adviser_recommendations = "None"

\* the statement of C22 for every absent module code but MT5867
C22_HoldsForCodesOtherThanMT5867 ==
    (/\ pc = "prerequisites_done"
     /\ AbsentFromCatalogue(module_catalogue, args)
     /\ args # "MT5867") =>
        /\ ~ret.raised
        /\ ret.missed_prerequisites = "None"
        /\ ret.adviser_recommendations = "None"

\* an absent MT5867 gets the finding of its special case exactly when fewer
\* than two modules of its list are previously taken
C22_AbsentMT5867IsStillChecked ==
    (/\ pc = "prerequisites_done"
     /\ AbsentFromCatalogue(module_catalogue, args)
     /\ args = "MT5867") =>
        (ret.missed_prerequisites # "None"
            <=> Cardinality(set_of(list_of_MT5867_modules)
                            \cap PreviouslyTaken(student, args)) < 2)

(***************************************************************************)
(* Direct calls of get_missing_prerequisites_for_module on a catalogue     *)
(* with antirequisites.                                                    *)
(***************************************************************************)

\* antirequisite entries of the catalogue row of PrereqModule
AntirequisiteStrings ==
    {NaN, "MT1001", "MT1001, MT1002", "MT1002 and MT3502"}

AntirequisiteCatalogue(prerequisites, antirequisites) ==
    [i \in 1..Len(PrereqCatalogue(prerequisites)) |->
        IF PrereqCatalogue(prerequisites)[i].Module_code = PrereqModule
        THEN [PrereqCatalogue(prerequisites)[i]
                 EXCEPT !.Antirequisites = antirequisites]
        ELSE PrereqCatalogue(prerequisites)[i]]

AntirequisitesInit ==
    /\ \E prerequisites \in {"MT1002"}, antirequisites \in AntirequisiteStrings :
           module_catalogue = AntirequisiteCatalogue(prerequisites, antirequisites)
    /\ form_files = <<>>
    /\ list_of_data_frames = <<>>
    /\ \E passed \in PassedLists, first_year \in 1..2 :
       \E rows \in PlannedRowLists(PrereqCodes \cup {PrereqModule}, first_year) :
           student = Student(190000006, "F Student", "fs6@example.org",
                             MathematicsBSc, first_year + 2, 2, first_year,
                             passed, <<>>, honours_module_table(rows))
    /\ locals = NoLocals
    /\ pc = "prerequisites_call"
    /\ args \in set_of(student.planned_honours_modules)
    /\ ret = NoValue

SpecAntirequisites == AntirequisitesInit /\ [][PrereqNext]_vars

CatalogueAntirequisites == catalogue_entry(module_catalogue, args, "Antirequisites")

\* the module code occurs in the antirequisite field
OccursInAntirequisites(module_code) ==
    /\ CatalogueAntirequisites # NaN
    /\ str_contains(CatalogueAntirequisites, module_code)

AntirequisiteFinding(module_code, module) ==
    "Student selected antirequisite " \o module_code \o " for module " \o module

C24_PassedHonoursModulesArePassed ==
    student.kind = "Student" =>
        set_of(student.passed_honours_modules) \subseteq set_of(student.passed_modules)

\* every planned module of a Student is in its passed_honours_modules, and
\* passed_modules ends as parse_excel_form passed it: full_module_list is
\* passed_modules followed by the planned modules
C24_PlannedModulesEndUpInPassedHonoursModules ==
    student.kind = "Student" =>
        /\ set_of(student.planned_honours_modules)
               \subseteq set_of(student.passed_honours_modules)
        /\ student.passed_honours_modules = student.all_honours_modules
        /\ student.full_module_list
               = student.passed_modules \o student.planned_honours_modules

(***************************************************************************)
(* Direct calls of find_not_running_modules on small forms and catalogues. *)
(***************************************************************************)

\* the planned codes: MT3501 and MT4512 are in the catalogue, MT4999 is not
RunningCodes == {"MT3501", "MT4512", "MT4999"}

RunningSemesters == {"S1", "Full Year"}

RunningYears == {"2020/2021", "2021/2022", "2024/2025"}

\* entries of the column 'Alternate years'
AlternateEntries == {"Yes", "No", "TBC", NaN}

RunningCatalogue(semester, year, alternate) ==
    <<[Module_code |-> "MT3501", Semester |-> "S1", Year |-> "2023/2024",
       Alternate_years |-> "No", Prerequisites |-> NaN,
       Antirequisites |-> NaN, Timetable |-> "9am Mon"],
      [Module_code |-> "MT4512", Semester |-> semester, Year |-> year,
       Alternate_years |-> alternate, Prerequisites |-> NaN,
       Antirequisites |-> NaN, Timetable |-> "11am Wed"]>>

RunningInit ==
    /\ \E semester \in RunningSemesters, year \in RunningYears,
          alternate \in AlternateEntries :
           module_catalogue = RunningCatalogue(semester, year, alternate)
    /\ form_files = <<>>
    /\ list_of_data_frames = <<>>
    /\ \E first_year \in 1..2 :
       \E rows \in PlannedRowLists(RunningCodes, first_year) :
           student = Student(190000007, "G Student", "gs7@example.org",
                             MathematicsBSc, first_year + 2, 2, first_year,
                             <<>>, <<>>, honours_module_table(rows))
    /\ locals = NoLocals
    /\ pc = "running_call"
    /\ args = NoValue
    /\ ret = NoValue

\* the call returns its two strings or leaves by the ValueError
RunningCall ==
    /\ pc = "running_call"
    /\ ret' = find_not_running_modules(student, module_catalogue)
    /\ pc' = IF ret'.raised THEN "raised" ELSE "running_done"
    /\ UNCHANGED <<module_catalogue, form_files, list_of_data_frames, student,
                   locals, args>>

RunningNext == RunningCall

SpecRunning == RunningInit /\ [][RunningNext]_vars

\* the catalogue row of a module of the catalogue
RowOfCatalogue(catalogue, module) ==
    CHOOSE row \in set_of(catalogue) : row.Module_code = module

\* the planned modules that the catalogue has with an entry of 'Alternate
\* years' that is neither 'Yes' nor 'No'
PlannedWithUnreadableFlag(a_student, catalogue) ==
    {module \in set_of(a_student.planned_honours_modules) :
        /\ ~AbsentFromCatalogue(catalogue, module)
        /\ RowOfCatalogue(catalogue, module).Alternate_years \notin {"Yes", "No"}}

\* C25: find_not_running_modules raises, and returns no finding, if a
\* planned module is in the catalogue with an alternation flag that is
\* neither 'Yes' nor 'No'; otherwise it returns, and a planned module that
\* is absent from the catalogue is skipped without a finding.
C25_UnreadableFlagRaises ==
    (pc \in {"running_done", "raised"}) =>
        /\ pc = "raised" <=> PlannedWithUnreadableFlag(student, module_catalogue) # {}
        /\ pc = "raised" =>
               /\ ret.raised
               /\ ret.not_running_modules = NaN
               /\ ret.adviser_recommendations = NaN
        /\ pc = "running_done" =>
               \A module \in set_of(student.planned_honours_modules) :
                   AbsentFromCatalogue(module_catalogue, module) =>
                       ~str_contains(ret.not_running_modules, module)

\* C25 witness: the form plans MT4999, which the catalogue does not have,
\* before MT4512, whose alternation flag is 'TBC', and the call has raised
C25_Witness ==
    /\ pc = "raised"
    /\ Len(student.planned_honours_modules) = 2
    /\ student.planned_honours_modules[1] = "MT4999"
    /\ student.planned_honours_modules[2] = "MT4512"
    /\ RowOfCatalogue(module_catalogue, "MT4512").Alternate_years = "TBC"

\* Y/(Y+1)
AcademicYear(start_year) == str(start_year) \o "/" \o str(start_year + 1)

\* the academic years in which a catalogue row says its module runs
YearsRunning(row) ==
    {AcademicYear(int(SubSeq(row.Year, 1, 4))
                  + (IF row.Alternate_years = "Yes" THEN 2 ELSE 1) * k) : k \in 0..3}

NotRunningInYear(module, academic_year) ==
    "Selected module " \o module \o " is not running in academic year "
    \o academic_year

WrongSemester(module, planned_semester, module_semester) ==
    "Selected module " \o module \o " for Semester " \o planned_semester
    \o " but it is actually running in " \o module_semester

\* C28: for a planned module of the catalogue with first academic year
\* Y/(Y+1), find_not_running_modules reports 'is not running in academic
\* year' if and only if the planned academic year is not among
\* Y+2k/(Y+2k+1), k = 0..3, for a module that alternates, or not among
\* Y+k/(Y+k+1), k = 0..3, for one that does not; and it reports the wrong
\* semester if and only if the planned semester differs from the semester
\* of the catalogue and that one is not 'Full Year'.
C28_NotRunningIffOutsideTheRunningYears ==
    pc = "running_done" =>
        \A i \in 1..Len(student.honours_module_choices) :
            LET row == student.honours_module_choices[i]
            IN  ~AbsentFromCatalogue(module_catalogue, row.Module_code) =>
                    /\ str_contains(ret.not_running_modules,
                                    NotRunningInYear(row.Module_code, row.Academic_year))
                           <=> row.Academic_year \notin
                                   YearsRunning(RowOfCatalogue(module_catalogue,
                                                               row.Module_code))
                    /\ str_contains(ret.not_running_modules,
                                    WrongSemester(row.Module_code, row.Semester,
                                        RowOfCatalogue(module_catalogue,
                                                       row.Module_code).Semester))
                           <=> /\ row.Semester
                                      # RowOfCatalogue(module_catalogue,
                                                       row.Module_code).Semester
                               /\ RowOfCatalogue(module_catalogue,
                                                 row.Module_code).Semester
                                      # "Full Year"

\* C28 witness: MT4512 first ran in 2020/2021, does not alternate and runs
\* all year; it is planned for 2023/2024, its last running year, and for
\* 2024/2025, and only the second entry is reported
C28_Witness ==
    /\ pc = "running_done"
    /\ RowOfCatalogue(module_catalogue, "MT4512").Year = "2020/2021"
    /\ RowOfCatalogue(module_catalogue, "MT4512").Alternate_years = "No"
    /\ RowOfCatalogue(module_catalogue, "MT4512").Semester = "Full Year"
    /\ \E i, j \in 1..Len(student.honours_module_choices) :
           /\ student.honours_module_choices[i].Module_code = "MT4512"
           /\ student.honours_module_choices[i].Academic_year = "2023/2024"
           /\ student.honours_module_choices[j].Module_code = "MT4512"
           /\ student.honours_module_choices[j].Academic_year = "2024/2025"
    /\ ret.not_running_modules = NotRunningInYear("MT4512", "2024/2025")

\* in a run of process_folder the form of a student who plans a module with
\* an unreadable alternation flag gets no record: the run does not go
\* beyond find_not_running_modules for it and returns nothing
C25_NoRecordForAFormWithAnUnreadableFlag ==
    (/\ student.kind = "Student"
     /\ PlannedWithUnreadableFlag(student, module_catalogue) # {}) =>
        /\ pc \in {"find_missing_programme_requirements",
                   "find_missing_prerequisites", "find_not_running_modules",
                   "raised"}
        /\ Len(list_of_data_frames) < locals.file_index
        /\ ret = NoValue

\* a run of process_folder that the ValueError of find_not_running_modules
\* has ended, after the record of a first form was made
C25_RunEndedByTheValueError ==
    /\ pc = "raised"
    /\ student.kind = "Student"
    /\ PlannedWithUnreadableFlag(student, module_catalogue) # {}
    /\ Len(locals.results) = 2
    /\ Len(list_of_data_frames) = 1

(***************************************************************************)
(* The order of the planned entries in the lists of taken modules          *)
(***************************************************************************)

\* the planned entries that lie before the module: in an earlier honours
\* year, or in Semester 1 of its honours year when the module is in S2
EntriesBefore(a_student, module) ==
    {i \in 1..Len(a_student.honours_module_choices) :
        \/ year_number_of(a_student.honours_module_choices[i].Honours_year)
               < PlannedYear(a_student, module)
        \/ /\ year_number_of(a_student.honours_module_choices[i].Honours_year)
                  = PlannedYear(a_student, module)
           /\ a_student.honours_module_choices[i].Semester = "S1"
           /\ PlannedSemester(a_student, module) = "S2"}

\* the planned entries of other modules in the semester of the module
EntriesWith(a_student, module) ==
    {i \in 1..Len(a_student.honours_module_choices) :
        /\ year_number_of(a_student.honours_module_choices[i].Honours_year)
               = PlannedYear(a_student, module)
        /\ a_student.honours_module_choices[i].Semester
               = PlannedSemester(a_student, module)
        /\ a_student.honours_module_choices[i].Module_code # module}

\* the number of entries of the set that plan the module code
EntriesOfCode(a_student, entries, module_code) ==
    Cardinality({i \in entries :
        a_student.honours_module_choices[i].Module_code = module_code})

\* C26: when a planned module M is evaluated, a planned entry contributes
\* to the previously taken modules of M only if it lies in a strictly
\* earlier honours year, or in Semester 1 of the honours year of M while M
\* is in Semester 2; the entries of other modules in the semester of M are
\* concurrently taken only, and the entries of a later semester or honours
\* year are in neither list.
C26_PlannedEntriesAreOrderedAroundTheModule ==
    pc = "prerequisites_done" =>
        \A taken \in {taken_modules(args, student)} :
        \A before \in {EntriesBefore(student, args)} :
        \A with \in {EntriesWith(student, args)} :
        \A module_code \in PrereqCodes \cup {PrereqModule} :
            /\ TimesInList(taken.previously_taken_modules, module_code)
                   = TimesInList(student.passed_modules, module_code)
                     + EntriesOfCode(student, before, module_code)
            /\ TimesInList(taken.simultaneously_taken_modules, module_code)
                   = EntriesOfCode(student, with, module_code)

\* C26 witness: MT3502 is planned for Year 1 S2, MT1001 for Year 1 S1 and
\* MT1002 for Year 2; MT1001 is the only module taken before MT3502 and no
\* module is taken with it
C26_Witness ==
    /\ pc = "prerequisites_done"
    /\ args = PrereqModule
    /\ student.passed_modules = <<>>
    /\ student.honours_module_choices
           = <<honours_module_row(1, 1, "MT1001"), honours_module_row(1, 2, PrereqModule),
               honours_module_row(2, 1, "MT1002")>>
    /\ taken_modules(args, student).previously_taken_modules = <<"MT1001">>
    /\ taken_modules(args, student).simultaneously_taken_modules = <<>>

(***************************************************************************)
(* Direct calls of find_clashing_timeslots_and_modules on dictionaries     *)
(* with a timeslot list that repeats a token.                              *)
(***************************************************************************)

\* timetable entries, one of which names a slot twice
RepeatingTimetables ==
    {NaN, "10am Mon", "10am Mon, 10am Mon", "10am Mon, 11am Tue"}

RepeatingInit ==
    /\ \E first \in RepeatingTimetables, second \in RepeatingTimetables,
          third \in RepeatingTimetables :
           module_catalogue = ClashCatalogue(first, second, third)
    /\ form_files = <<>>
    /\ list_of_data_frames = <<>>
    /\ student = NoStudent
    /\ locals = NoLocals
    /\ pc = "clashing_call"
    /\ \E semester_modules \in SemesterModuleLists :
           args = timeslot_dictionary_of(semester_modules, module_catalogue)
    /\ ret = NoValue

SpecRepeating == RepeatingInit /\ [][ClashingNext]_vars

\* the modules of the dictionary that the message names
ModulesNamed(message) == {module \in KeysOf : str_contains(message, module)}

\* the timeslots of the dictionary that the message names
TimeslotsNamed(message) ==
    {timeslot \in UNION {SlotsOf(module) : module \in KeysOf} :
        str_contains(message, timeslot)}

\* a timeslot list of the dictionary has a token twice
SomeListRepeatsAToken ==
    \E i \in 1..Len(args) :
        Cardinality(set_of(args[i].value)) # Len(args[i].value)

\* C27: every clash message that find_clashing_timeslots_and_modules
\* returns names at least two distinct module codes and at least one
\* timeslot, for every dictionary of modules and timeslot lists, a list
\* that repeats a token included.
C27_MessageNamesTwoModulesAndATimeslot ==
    pc = "clashing_done" =>
        \A i \in 1..Len(ret) :
            /\ Cardinality(ModulesNamed(ret[i])) >= 2
            /\ TimeslotsNamed(ret[i]) # {}

\* the statement of C27 for the dictionaries without a repeated token
C27_HoldsWhenNoListRepeatsAToken ==
    (pc = "clashing_done" /\ ~SomeListRepeatsAToken) =>
        \A i \in 1..Len(ret) :
            /\ Cardinality(ModulesNamed(ret[i])) >= 2
            /\ TimeslotsNamed(ret[i]) # {}

\* every message names a timeslot, and a message for one module alone is
\* returned exactly for a module that has a token twice which no other
\* module has
C27_MessageForOneModuleIffItsTokenIsRepeated ==
    pc = "clashing_done" =>
        /\ \A i \in 1..Len(ret) : TimeslotsNamed(ret[i]) # {}
        /\ \A module \in KeysOf :
               (\E i \in 1..Len(ret) : ModulesNamed(ret[i]) = {module})
                   <=> \E timeslot \in SlotsOf(module) :
                           /\ TimesInList(dict_value(args, module), timeslot) > 1
                           /\ \A other \in KeysOf \ {module} :
                                  timeslot \notin SlotsOf(other)

====
